---- MODULE Spec2Model ----
(***************************************************************************)
(* Model of the AI dev team workflow (Lecture24/ai-dev-team-phase3):       *)
(*   - callGemini / makeTokenDelta   (src/utils/gemini.js)                 *)
(*   - AgentState reducers           (config/state.js)                     *)
(*   - blueprintValidatorNode/Router (agents/blueprintValidator.js)        *)
(*   - the graph of buildGraph       (config/graph.js) driven by main      *)
(*                                                                         *)
(* Money is counted in units of 1e-8 dollar, so that the price formula of  *)
(* gemini.js line 79, (in / 1e6) * 0.15 + (out / 1e6) * 0.60, is the exact *)
(* integer 15 * in + 60 * out and a budget of $2.00 is 200000000 units.    *)
(* Optional (possibly undefined) JavaScript values are sequences of length *)
(* at most one: <<>> is undefined, <<v>> is the value v.                   *)
(* Text is a sequence of one-character strings.                            *)
(***************************************************************************)
EXTENDS Integers, Sequences, FiniteSets, TLC

VARIABLES
    \* ---- one callGemini invocation (gemini.js) ----
    pc,            \* "idle" | "awaiting" | "backoff" | "returned" | "failed"
    attempt,       \* the loop variable of callGemini, 0 before the loop
    callsIssued,   \* number of client.models.generateContent calls issued
    waits,         \* the backoff waits (ms) started, in order
    outcomes,      \* what each finished attempt produced, in order
    lastError,     \* the variable lastError of callGemini
    callArgs,      \* the arguments of the invocation
    callResult,    \* the value returned, or the error thrown
    \* ---- blueprintValidatorNode / blueprintValidatorRouter on their own ----
    vState,        \* the state the validator is run on
    vDone,         \* TRUE once blueprintValidatorNode has been executed on vState
    vOut,          \* what blueprintValidatorNode did: raised, or the update returned
    vNew,          \* vState with the update merged
    vRoute,        \* what blueprintValidatorRouter returned
    \* ---- a run of the graph (index.js, config/graph.js) ----
    state,         \* the channels of AgentState
    node,          \* the node to execute next; "__end__" once the graph has ended
    runStatus,     \* "idle" | "running" | "done" | "aborted"
    billed,        \* history: the tokens callGemini returned to each node that completed
    passes,        \* history: the executions of blueprintValidatorNode that returned
    \* ---- the reducers of AgentState on their own (state.js) ----
    applied,       \* history: the updates merged into state, one channel each
    \* ---- the process and its checkpointer (index.js, config/graph.js) ----
    threadId,      \* Date.now() when main built the thread id; 0 before
    saver,         \* "memory" | "redis": what createCheckpointer returned
    saved,         \* the checkpointer: the last checkpoint of each thread
    steps,         \* the number of nodes executed since graph.invoke was called
    trace,         \* history: the nodes executed since graph.invoke was called, in order
    crashedAt,     \* history: the last checkpoint written before the process crashed,
                   \* kept while the process is down
    env,           \* the environment of the process: is REDIS_URL set, can the redis
                   \* saver be imported, does RedisSaver.fromUrl connect
    \* ---- the sandbox manager (utils/sandboxManager.js) ----
    sandboxes,     \* the Map sandboxes: the entry of each sandbox id, if any
    disk,          \* the directory of each sandbox id under os.tmpdir(), if any
    nextSandbox,   \* the id the next createSandbox builds from Date.now()
    sbResult       \* the last call of the interface: what it returned or that it threw

callVars == <<pc, attempt, callsIssued, waits, outcomes, lastError, callArgs, callResult>>

valVars == <<vState, vDone, vOut, vNew, vRoute>>

\* what callGemini does not touch
sbVars == <<sandboxes, disk, nextSandbox, sbResult>>

procVars == <<threadId, saver, crashedAt, env, sandboxes, disk, nextSandbox, sbResult>>

runVars == <<state, node, runStatus, billed, passes, applied, threadId, saver, saved, steps, trace,
            crashedAt, env, sandboxes, disk, nextSandbox, sbResult>>

nonSbVars == <<pc, attempt, callsIssued, waits, outcomes, lastError, callArgs, callResult,
               vState, vDone, vOut, vNew, vRoute,
               state, node, runStatus, billed, passes, applied, threadId, saver, saved, steps,
               trace, crashedAt, env>>

nonCallVars == <<vState, vDone, vOut, vNew, vRoute, state, node, runStatus, billed, passes, applied,
                 threadId, saver, saved, steps, trace, crashedAt, env,
                 sandboxes, disk, nextSandbox, sbResult>>

vars == <<pc, attempt, callsIssued, waits, outcomes, lastError, callArgs, callResult,
          vState, vDone, vOut, vNew, vRoute,
          state, node, runStatus, billed, passes, applied, threadId, saver, saved, steps, trace,
          crashedAt, env, sandboxes, disk, nextSandbox, sbResult>>

(***************************************************************************)
(* Optional values.                                                        *)
(***************************************************************************)
None == <<>>

Some(v) == <<v>>

IsSome(o) == Len(o) = 1

(***************************************************************************)
(* gemini.js                                                               *)
(***************************************************************************)
MAX_RETRIES_four == 3 + 1

\* line 59
MAX_RETRIES == 3

INPUT_PRICE == 15

OUTPUT_PRICE == 60

BACKOFF_BASE_MS == 1000

\* Math.ceil(n / 4) for n >= 0
CeilDiv4(n) == (n + 3) \div 4

RECURSIVE Pow2(_)
Pow2(n) == IF n = 0 THEN 1 ELSE 2 * Pow2(n - 1)

\* A response text is [fence, body, len]: fence says that the trimmed text
\* starts with ``` ; body is what is left once the fences are removed.
\* lines 84-87: strip a leading ```json and a trailing ```
CleanText(rawText) == IF rawText.fence THEN [rawText EXCEPT !.fence = FALSE] ELSE rawText

\* line 88: JSON.parse succeeds on well-formed JSON only
JsonParses(cleanText) == ~cleanText.fence /\ cleanText.body = "json"

\* lines 75-76: the measured count, or the estimate when it is missing or 0
InputTokens(response, promptLen) ==
    IF response.promptTokenCount # 0 THEN response.promptTokenCount ELSE CeilDiv4(promptLen)

OutputTokens(response) ==
    IF response.candidatesTokenCount # 0 THEN response.candidatesTokenCount
    ELSE CeilDiv4(response.text.len)

\* line 79
CallCost(inputTokens, outputTokens) == inputTokens * INPUT_PRICE + outputTokens * OUTPUT_PRICE

RECURSIVE SumInput(_)
SumInput(os) == IF os = <<>> THEN 0 ELSE os[1].input + SumInput(Tail(os))

TokensOf_accumulating(response, promptLen) ==
    [input  |-> SumInput(outcomes) + InputTokens(response, promptLen),
     output |-> OutputTokens(response),
     cost   |-> CallCost(SumInput(outcomes) + InputTokens(response, promptLen),
                         OutputTokens(response))]

\* lines 98-102: the tokens member of the value callGemini returns
TokensOf(response, promptLen) ==
    [input  |-> InputTokens(response, promptLen),
     output |-> OutputTokens(response),
     cost   |-> CallCost(InputTokens(response, promptLen), OutputTokens(response))]

\* lines 123-135 (the timestamp of a call record is not modelled)
makeTokenDelta(agentName, tokens) ==
    [newCalls    |-> << [agent |-> agentName, inputTokens |-> tokens.input,
                         outputTokens |-> tokens.output] >>,
     addedInput  |-> tokens.input,
     addedOutput |-> tokens.output,
     addedCost   |-> tokens.cost]

WaitMs_fromZero(k) == Pow2(k - 1) * BACKOFF_BASE_MS

\* line 109
WaitMs(k) == Pow2(k) * BACKOFF_BASE_MS

NoResult == [ok |-> FALSE, error |-> "none", parsed |-> None, tokens |-> None]

Thrown(err) == [ok |-> FALSE, error |-> err, parsed |-> None, tokens |-> None]

\* What the message of a thrown error tells its reader.  Line 92 builds the
\* text "JSON_PARSE_FAILED after 3 attempts." and drops parseError; line 107
\* rethrows the error of generateContent as it is, with the message the
\* channel gave it.
ErrorReport(err) ==
    IF err = "JSON_PARSE_FAILED"
    THEN [attempts |-> Some(MAX_RETRIES), detail |-> None]
    ELSE [attempts |-> None, detail |-> Some(err)]

InitCall ==
    /\ pc = "idle"
    /\ attempt = 0
    /\ callsIssued = 0
    /\ waits = <<>>
    /\ outcomes = <<>>
    /\ lastError = "null"
    /\ callArgs = [agentName |-> "unknown", currentCost |-> 0, tokenBudget |-> 0, promptLen |-> 0]
    /\ callResult = NoResult

BudgetExceeded_strict(currentCost, tokenBudget) == currentCost > tokenBudget

\* line 50
BudgetExceeded(currentCost, tokenBudget) == currentCost >= tokenBudget

\* lines 38-61: the budget check, then the first generateContent call
callGemini(agentName, currentCost, tokenBudget, promptLen) ==
    /\ pc = "idle"
    /\ callArgs' = [agentName |-> agentName, currentCost |-> currentCost,
                    tokenBudget |-> tokenBudget, promptLen |-> promptLen]
    /\ IF BudgetExceeded(currentCost, tokenBudget)
       THEN /\ pc' = "failed"
            /\ callResult' = Thrown("TOKEN_BUDGET_EXCEEDED")
            /\ UNCHANGED <<attempt, callsIssued>>
       ELSE /\ pc' = "awaiting"
            /\ attempt' = 1
            /\ callsIssued' = callsIssued + 1
            /\ UNCHANGED callResult
    /\ UNCHANGED <<waits, outcomes, lastError>>
    /\ UNCHANGED nonCallVars

ChannelFailure_staleError ==
    /\ pc = "awaiting"
    /\ outcomes' = Append(outcomes, [kind |-> "channel", input |-> 0, output |-> 0])
    /\ lastError' = "CHANNEL_ERROR"
    /\ IF attempt = MAX_RETRIES
       THEN /\ pc' = "failed"
            /\ callResult' = Thrown(lastError)
            /\ UNCHANGED waits
       ELSE /\ pc' = "backoff"
            /\ waits' = Append(waits, WaitMs(attempt))
            /\ UNCHANGED callResult
    /\ UNCHANGED <<attempt, callsIssued, callArgs>>
    /\ UNCHANGED nonCallVars

\* lines 104-112: generateContent rejects (a channel failure).  The budget
\* error of line 106 is raised at lines 50-53, outside this try, so that no
\* error caught here carries its text.
ChannelFailure ==
    /\ pc = "awaiting"
    /\ outcomes' = Append(outcomes, [kind |-> "channel", input |-> 0, output |-> 0])
    /\ lastError' = "CHANNEL_ERROR"
    /\ IF attempt = MAX_RETRIES
       THEN /\ pc' = "failed"
            /\ callResult' = Thrown("CHANNEL_ERROR")
            /\ UNCHANGED waits
       ELSE /\ pc' = "backoff"
            /\ waits' = Append(waits, WaitMs(attempt))
            /\ UNCHANGED callResult
    /\ UNCHANGED <<attempt, callsIssued, callArgs>>
    /\ UNCHANGED nonCallVars

\* line 111 resolves, the loop increments attempt and issues the next call
BackoffElapsed ==
    /\ pc = "backoff"
    /\ pc' = "awaiting"
    /\ attempt' = attempt + 1
    /\ callsIssued' = callsIssued + 1
    /\ UNCHANGED <<waits, outcomes, lastError, callArgs, callResult>>
    /\ UNCHANGED nonCallVars

ParseFailure_noCeiling(response) ==
    /\ pc = "awaiting"
    /\ ~JsonParses(CleanText(response.text))
    /\ outcomes' = Append(outcomes, [kind |-> "parse",
                                     input |-> InputTokens(response, callArgs.promptLen),
                                     output |-> OutputTokens(response)])
    /\ lastError' = "parseError"
    /\ IF attempt = MAX_RETRIES
       THEN /\ pc' = "failed"
            /\ callResult' = Thrown("parseError")
            /\ UNCHANGED <<attempt, callsIssued>>
       ELSE /\ pc' = "awaiting"
            /\ attempt' = attempt + 1
            /\ callsIssued' = callsIssued + 1
            /\ UNCHANGED callResult
    /\ UNCHANGED <<waits, callArgs>>
    /\ UNCHANGED nonCallVars

ParseFailure_backsOff(response) ==
    /\ pc = "awaiting"
    /\ ~JsonParses(CleanText(response.text))
    /\ outcomes' = Append(outcomes, [kind |-> "parse",
                                     input |-> InputTokens(response, callArgs.promptLen),
                                     output |-> OutputTokens(response)])
    /\ IF attempt = MAX_RETRIES
       THEN /\ pc' = "failed"
            /\ lastError' = "JSON_PARSE_FAILED"
            /\ callResult' = Thrown("JSON_PARSE_FAILED")
            /\ UNCHANGED waits
       ELSE /\ pc' = "backoff"
            /\ lastError' = "parseError"
            /\ waits' = Append(waits, WaitMs(attempt))
            /\ UNCHANGED callResult
    /\ UNCHANGED <<attempt, callsIssued, callArgs>>
    /\ UNCHANGED nonCallVars

\* lines 71-96 and 104-107: a response whose text does not parse
ParseFailure(response) ==
    /\ pc = "awaiting"
    /\ ~JsonParses(CleanText(response.text))
    /\ outcomes' = Append(outcomes, [kind |-> "parse",
                                     input |-> InputTokens(response, callArgs.promptLen),
                                     output |-> OutputTokens(response)])
    /\ IF attempt = MAX_RETRIES
       THEN /\ pc' = "failed"
            /\ lastError' = "JSON_PARSE_FAILED"
            /\ callResult' = Thrown("JSON_PARSE_FAILED")
            /\ UNCHANGED <<attempt, callsIssued>>
       ELSE /\ pc' = "awaiting"
            /\ lastError' = "parseError"
            /\ attempt' = attempt + 1
            /\ callsIssued' = callsIssued + 1
            /\ UNCHANGED callResult
    /\ UNCHANGED <<waits, callArgs>>
    /\ UNCHANGED nonCallVars

\* lines 71-102: a response whose text parses
Success(response) ==
    /\ pc = "awaiting"
    /\ JsonParses(CleanText(response.text))
    /\ outcomes' = Append(outcomes, [kind |-> "ok",
                                     input |-> InputTokens(response, callArgs.promptLen),
                                     output |-> OutputTokens(response)])
    /\ pc' = "returned"
    /\ callResult' = [ok |-> TRUE, error |-> "none", parsed |-> Some(response.parsed),
                      tokens |-> Some(TokensOf(response, callArgs.promptLen))]
    /\ UNCHANGED <<attempt, callsIssued, waits, lastError, callArgs>>
    /\ UNCHANGED nonCallVars

(***************************************************************************)
(* Text: the String methods and regular expressions the validator uses.    *)
(***************************************************************************)
UpperLetters == <<"A", "B", "C", "D", "E", "F", "G", "H", "I", "J", "K", "L", "M",
                  "N", "O", "P", "Q", "R", "S", "T", "U", "V", "W", "X", "Y", "Z">>

LowerLetters == <<"a", "b", "c", "d", "e", "f", "g", "h", "i", "j", "k", "l", "m",
                  "n", "o", "p", "q", "r", "s", "t", "u", "v", "w", "x", "y", "z">>

Digits == {"0", "1", "2", "3", "4", "5", "6", "7", "8", "9"}

Range(f) == {f[i] : i \in DOMAIN f}

LowerChar(c) ==
    IF c \in Range(UpperLetters)
    THEN LowerLetters[CHOOSE i \in DOMAIN UpperLetters : UpperLetters[i] = c]
    ELSE c

\* String.prototype.toLowerCase
toLowerCase(s) == [i \in 1..Len(s) |-> LowerChar(s[i])]

\* the class \w
IsWordChar(c) == c \in Range(UpperLetters) \cup Range(LowerLetters) \cup Digits \cup {"_"}

\* s.replace(/s$/, "")
StripFinalS(s) == IF Len(s) > 0 /\ s[Len(s)] = "s" THEN SubSeq(s, 1, Len(s) - 1) ELSE s

\* s.replace(/y$/, "ie")
FinalYToIe(s) ==
    IF Len(s) > 0 /\ s[Len(s)] = "y" THEN SubSeq(s, 1, Len(s) - 1) \o <<"i", "e">> ELSE s

\* s.includes(sub)
Includes(s, sub) ==
    \E i \in 1..(Len(s) - Len(sub) + 1) : SubSeq(s, i, i + Len(sub) - 1) = sub

\* length of the longest prefix of s made of \w characters
RECURSIVE WordPrefixLen(_)
WordPrefixLen(s) ==
    IF s # <<>> /\ IsWordChar(s[1]) THEN 1 + WordPrefixLen(Tail(s)) ELSE 0

\* references.match(/^(\w+)\(/): the captured group, or no match
RefMatch(references) ==
    LET k == WordPrefixLen(references)
    IN  IF k >= 1 /\ Len(references) > k /\ references[k + 1] = "("
        THEN Some(SubSeq(references, 1, k))
        ELSE None

PARAM == <<"/", ":", "p", "a", "r", "a", "m">>

\* s.replace(/\/:\w+/g, "/:param")
RECURSIVE NormalizeParams(_)
NormalizeParams(s) ==
    IF s = <<>> THEN <<>>
    ELSE IF Len(s) >= 3 /\ s[1] = "/" /\ s[2] = ":" /\ IsWordChar(s[3])
         THEN LET rest == SubSeq(s, 3, Len(s))
              IN  PARAM \o NormalizeParams(SubSeq(rest, WordPrefixLen(rest) + 1, Len(rest)))
         ELSE <<s[1]>> \o NormalizeParams(Tail(s))

RECURSIVE Flatten(_)
Flatten(ss) == IF ss = <<>> THEN <<>> ELSE ss[1] \o Flatten(Tail(ss))

RECURSIVE Filter(_, _)
Filter(s, keep) ==
    IF s = <<>> THEN <<>>
    ELSE (IF s[1] \in keep THEN <<s[1]>> ELSE <<>>) \o Filter(Tail(s), keep)

(***************************************************************************)
(* blueprintValidator.js                                                   *)
(*                                                                         *)
(* blueprint  = [entities, dbSchema, apiEndpoints, frontendPages,          *)
(*               folderStructure, dependencies]           (each optional)  *)
(* entity     = [name]                                    (optional text)  *)
(* dbSchema   = [tables]                                  (optional list)  *)
(* table      = [name, foreignKeys], foreign key = [references]            *)
(* endpoint   = [path, relatedTable, requiresAuth]                         *)
(* page       = [name, requiresAuth, components], component = [apiCalls]   *)
(***************************************************************************)
MAX_VALIDATION_CYCLES_three == 2 + 1

\* line 34
MAX_VALIDATION_CYCLES == 2

Issue(type, severity, fixTarget, about) ==
    [type |-> type, severity |-> severity, fixTarget |-> fixTarget, about |-> about]

\* dbSchema?.tables
TablesOf(blueprint) ==
    IF IsSome(blueprint.dbSchema) THEN blueprint.dbSchema[1].tables ELSE None

TableNameSet_caseSensitive(tables) == {tables[i].name[1] : i \in DOMAIN tables}

\* new Set(dbSchema.tables.map(t => t.name.toLowerCase()))   lines 75, 101
TableNameSet(tables) == {toLowerCase(tables[i].name[1]) : i \in DOMAIN tables}

\* lines 49-70
Check1(blueprint) ==
    LET tables == TablesOf(blueprint)
    IN  IF IsSome(blueprint.entities) /\ IsSome(tables)
        THEN LET entities   == blueprint.entities[1]
                 tableNames == {StripFinalS(toLowerCase(tables[1][i].name[1])) :
                                    i \in DOMAIN tables[1]} \cup TableNameSet(tables[1])
                 HasTable(entityName) ==
                     \/ entityName \in tableNames
                     \/ (entityName \o <<"s">>) \in tableNames
                     \/ (FinalYToIe(entityName) \o <<"s">>) \in tableNames
             IN  Flatten([i \in 1..Len(entities) |->
                    IF HasTable(toLowerCase(entities[i].name[1])) THEN <<>>
                    ELSE << Issue("missing_table", "error", "architectStep2",
                                  entities[i].name[1]) >>])
        ELSE <<>>

\* lines 77-95, for one table
ForeignKeyIssues(table, tableNameSet) ==
    IF IsSome(table.foreignKeys)
    THEN LET fks == table.foreignKeys[1]
         IN  Flatten([j \in 1..Len(fks) |->
                LET refMatch == IF IsSome(fks[j].references)
                                THEN RefMatch(fks[j].references[1]) ELSE None
                IN  IF IsSome(refMatch) /\ toLowerCase(refMatch[1]) \notin tableNameSet
                    THEN << Issue("invalid_foreign_key", "error", "architectStep2",
                                  fks[j].references[1]) >>
                    ELSE <<>>])
    ELSE <<>>

\* lines 74-96
Check2(blueprint) ==
    LET tables == TablesOf(blueprint)
    IN  IF IsSome(tables)
        THEN Flatten([i \in 1..Len(tables[1]) |->
                ForeignKeyIssues(tables[1][i], TableNameSet(tables[1]))])
        ELSE <<>>

\* a string is truthy when it is defined and not empty
Truthy(optText) == IsSome(optText) /\ optText[1] # <<>>

\* lines 100-116
Check3(blueprint) ==
    LET tables == TablesOf(blueprint)
    IN  IF IsSome(blueprint.apiEndpoints) /\ IsSome(tables)
        THEN LET apiEndpoints == blueprint.apiEndpoints[1]
             IN  Flatten([i \in 1..Len(apiEndpoints) |->
                    IF /\ Truthy(apiEndpoints[i].relatedTable)
                       /\ toLowerCase(apiEndpoints[i].relatedTable[1])
                              \notin TableNameSet(tables[1])
                    THEN << Issue("orphan_endpoint", "error", "architectStep3",
                                  apiEndpoints[i].relatedTable[1]) >>
                    ELSE <<>>])
        ELSE <<>>

\* e.path?.toLowerCase()
LowerPath(endpoint) ==
    IF IsSome(endpoint.path) THEN Some(toLowerCase(endpoint.path[1])) ELSE None

\* lines 131-135
ApiExists(apiCall, apiPaths) ==
    LET normalized == NormalizeParams(toLowerCase(apiCall))
    IN  \E path \in apiPaths :
            /\ IsSome(path)
            /\ \/ NormalizeParams(path[1]) = normalized
               \/ path[1] = toLowerCase(apiCall)

\* lines 126-147, for one page
MissingApiIssues(page, apiPaths) ==
    IF IsSome(page.components)
    THEN LET comps == page.components[1]
         IN  Flatten([j \in 1..Len(comps) |->
                IF IsSome(comps[j].apiCalls)
                THEN LET calls == comps[j].apiCalls[1]
                     IN  Flatten([k \in 1..Len(calls) |->
                            IF ApiExists(calls[k], apiPaths) THEN <<>>
                            ELSE << Issue("missing_api", "warning", "architectStep3",
                                          calls[k]) >>])
                ELSE <<>>])
    ELSE <<>>

\* lines 120-149
Check4(blueprint) ==
    IF IsSome(blueprint.frontendPages) /\ IsSome(blueprint.apiEndpoints)
    THEN LET pages    == blueprint.frontendPages[1]
             apiPaths == {LowerPath(blueprint.apiEndpoints[1][i]) :
                              i \in DOMAIN blueprint.apiEndpoints[1]}
         IN  Flatten([i \in 1..Len(pages) |-> MissingApiIssues(pages[i], apiPaths)])
    ELSE <<>>

\* lines 161-175, for one page
AuthIssues(page, authEndpoints) ==
    IF IsSome(page.components)
    THEN LET comps == page.components[1]
         IN  Flatten([j \in 1..Len(comps) |->
                IF /\ IsSome(comps[j].apiCalls)
                   /\ \E k \in DOMAIN comps[j].apiCalls[1] :
                          Some(toLowerCase(comps[j].apiCalls[1][k])) \in authEndpoints
                   /\ ~page.requiresAuth
                THEN << Issue("auth_mismatch", "warning", "architectStep4", page.name) >>
                ELSE <<>>])
    ELSE <<>>

\* lines 153-177
Check5(blueprint) ==
    IF IsSome(blueprint.apiEndpoints) /\ IsSome(blueprint.frontendPages)
    THEN LET pages == blueprint.frontendPages[1]
             eps   == blueprint.apiEndpoints[1]
             authEndpoints == {LowerPath(eps[i]) : i \in {k \in DOMAIN eps : eps[k].requiresAuth}}
         IN  Flatten([i \in 1..Len(pages) |-> AuthIssues(pages[i], authEndpoints)])
    ELSE <<>>

\* line 191
IsJunction(name) ==
    /\ Includes(name, <<"_">>)
    /\ ~ \/ Includes(name, <<"c", "r", "e", "a", "t", "e", "d", "_", "a", "t">>)
         \/ Includes(name, <<"u", "p", "d", "a", "t", "e", "d", "_", "a", "t">>)

\* lines 181-202
Check6(blueprint) ==
    LET tables == TablesOf(blueprint)
    IN  IF IsSome(tables) /\ IsSome(blueprint.apiEndpoints)
        THEN LET eps == blueprint.apiEndpoints[1]
                 referencedTables ==
                     {toLowerCase(eps[i].relatedTable[1]) :
                          i \in {k \in DOMAIN eps : Truthy(eps[k].relatedTable)}}
             IN  Flatten([i \in 1..Len(tables[1]) |->
                    LET name == toLowerCase(tables[1][i].name[1])
                    IN  IF name \notin referencedTables /\ ~IsJunction(name)
                        THEN << Issue("orphan_table", "warning", "architectStep3",
                                      tables[1][i].name[1]) >>
                        ELSE <<>>])
        ELSE <<>>

AllIssues_endpointsFirst(blueprint) ==
    Check3(blueprint) \o Check1(blueprint) \o Check2(blueprint) \o
    Check4(blueprint) \o Check5(blueprint) \o Check6(blueprint)

\* the issues list when line 204 is reached
AllIssues(blueprint) ==
    Check1(blueprint) \o Check2(blueprint) \o Check3(blueprint) \o
    Check4(blueprint) \o Check5(blueprint) \o Check6(blueprint)

\* The TypeErrors of the function: line 42 destructures state.blueprint,
\* lines 51, 54, 75, 101 and 190 call t.name.toLowerCase(), line 57 calls
\* entity.name.toLowerCase().
ValidatorRaises(s) ==
    \/ ~IsSome(s.blueprint)
    \/ LET blueprint == s.blueprint[1]
           tables    == TablesOf(blueprint)
       IN  /\ IsSome(tables)
           /\ \/ \E i \in DOMAIN tables[1] : ~IsSome(tables[1][i].name)
              \/ /\ IsSome(blueprint.entities)
                 /\ \E i \in DOMAIN blueprint.entities[1] :
                        ~IsSome(blueprint.entities[1][i].name)

\* line 43: state.blueprintValidation?.validationCycles || 0
CurrentCycles(s) ==
    IF IsSome(s.blueprintValidation)
    THEN s.blueprintValidation[1].validationCycles ELSE 0

Validation(isValid, issues, validationCycles) ==
    [isValid |-> isValid, issues |-> issues, validationCycles |-> validationCycles]

Decide_dropWarnings(issues, currentCycles) ==
    IF Len(issues) = 0
    THEN [blueprintValidation |-> Some(Validation(TRUE, <<>>, currentCycles + 1)),
          currentPhase |-> Some("planner")]
    ELSE IF currentCycles >= MAX_VALIDATION_CYCLES
    THEN [blueprintValidation |->
              Some(Validation(TRUE,
                              Filter(issues, {i \in Range(issues) : i.severity = "error"}),
                              currentCycles + 1)),
          currentPhase |-> Some("planner")]
    ELSE [blueprintValidation |-> Some(Validation(FALSE, issues, currentCycles + 1))]

Decide_countOnRouteBackOnly(issues, currentCycles) ==
    IF Len(issues) = 0
    THEN [blueprintValidation |-> Some(Validation(TRUE, <<>>, currentCycles)),
          currentPhase |-> Some("planner")]
    ELSE IF currentCycles >= MAX_VALIDATION_CYCLES
    THEN [blueprintValidation |-> Some(Validation(TRUE, issues, currentCycles + 1)),
          currentPhase |-> Some("planner")]
    ELSE [blueprintValidation |-> Some(Validation(FALSE, issues, currentCycles + 1))]

Decide_alwaysPlanner(issues, currentCycles) ==
    IF Len(issues) = 0 \/ currentCycles >= MAX_VALIDATION_CYCLES
    THEN [blueprintValidation |-> Some(Validation(TRUE, issues, currentCycles + 1)),
          currentPhase |-> Some("planner")]
    ELSE [blueprintValidation |-> Some(Validation(FALSE, issues, currentCycles + 1)),
          currentPhase |-> Some("planner")]

Decide_neverForces(issues, currentCycles) ==
    IF Len(issues) = 0
    THEN [blueprintValidation |-> Some(Validation(TRUE, <<>>, currentCycles + 1)),
          currentPhase |-> Some("planner")]
    ELSE [blueprintValidation |-> Some(Validation(FALSE, issues, currentCycles + 1))]

\* lines 206-246: the update the node returns
Decide(issues, currentCycles) ==
    IF Len(issues) = 0
    THEN [blueprintValidation |-> Some(Validation(TRUE, <<>>, currentCycles + 1)),
          currentPhase |-> Some("planner")]
    ELSE IF currentCycles >= MAX_VALIDATION_CYCLES
    THEN [blueprintValidation |-> Some(Validation(TRUE, issues, currentCycles + 1)),
          currentPhase |-> Some("planner")]
    ELSE [blueprintValidation |-> Some(Validation(FALSE, issues, currentCycles + 1))]

\* an update without keys, like the object {}
EmptyUpdate == <<>>

blueprintValidatorNode_costAware(s) ==
    IF ValidatorRaises(s)
    THEN [raised |-> TRUE, update |-> EmptyUpdate]
    ELSE [raised |-> FALSE,
          update |-> Decide(AllIssues(s.blueprint[1]),
                            IF s.tokenUsage.estimatedCost >= s.tokenBudget
                            THEN MAX_VALIDATION_CYCLES ELSE CurrentCycles(s))]

\* lines 39-247: [raised, update]
blueprintValidatorNode(s) ==
    IF ValidatorRaises(s)
    THEN [raised |-> TRUE, update |-> EmptyUpdate]
    ELSE [raised |-> FALSE,
          update |-> Decide(AllIssues(s.blueprint[1]), CurrentCycles(s))]

\* the keys of targetCounts in insertion order (line 273)
RECURSIVE FirstAppearances(_)
FirstAppearances(targets) ==
    IF targets = <<>> THEN <<>>
    ELSE LET front == FirstAppearances(SubSeq(targets, 1, Len(targets) - 1))
             t     == targets[Len(targets)]
         IN  IF t \in Range(front) THEN front ELSE Append(front, t)

Count(targets, t) == Cardinality({i \in DOMAIN targets : targets[i] = t})

RECURSIVE SortByCountDesc_tiesLast(_)
SortByCountDesc_tiesLast(entries) ==
    IF entries = <<>> THEN <<>>
    ELSE LET front  == SortByCountDesc_tiesLast(SubSeq(entries, 1, Len(entries) - 1))
             e      == entries[Len(entries)]
             before == {i \in DOMAIN front : front[i][2] > e[2]}
             k      == Cardinality(before)
         IN  SubSeq(front, 1, k) \o <<e>> \o SubSeq(front, k + 1, Len(front))

\* Array.prototype.sort((a, b) => b[1] - a[1]): stable, by descending count
RECURSIVE SortByCountDesc(_)
SortByCountDesc(entries) ==
    IF entries = <<>> THEN <<>>
    ELSE LET front  == SortByCountDesc(SubSeq(entries, 1, Len(entries) - 1))
             e      == entries[Len(entries)]
             before == {i \in DOMAIN front : front[i][2] >= e[2]}
             k      == Cardinality(before)
         IN  SubSeq(front, 1, k) \o <<e>> \o SubSeq(front, k + 1, Len(front))

Router_ignoresIsValid(s) ==
    LET validation == s.blueprintValidation
        issues == IF IsSome(validation) THEN validation[1].issues ELSE <<>>
        errors == Filter(issues, {i \in Range(issues) : i.severity = "error"})
    IN  IF Len(errors) > 0 THEN errors[1].fixTarget
        ELSE IF Len(issues) > 0 THEN issues[1].fixTarget
        ELSE "__end__"

Router_lastError(s) ==
    LET validation == s.blueprintValidation
        issues == IF IsSome(validation) THEN validation[1].issues ELSE <<>>
        errors == Filter(issues, {i \in Range(issues) : i.severity = "error"})
    IN  IF IsSome(validation) /\ validation[1].isValid THEN "__end__"
        ELSE IF Len(errors) > 0 THEN errors[Len(errors)].fixTarget
        ELSE IF Len(issues) > 0 THEN issues[1].fixTarget
        ELSE "__end__"

\* lines 253-282
blueprintValidatorRouter(s) ==
    LET validation == s.blueprintValidation
        issues == IF IsSome(validation) THEN validation[1].issues ELSE <<>>
        errors == Filter(issues, {i \in Range(issues) : i.severity = "error"})
        targets == [i \in 1..Len(issues) |-> issues[i].fixTarget]
        keys == FirstAppearances(targets)
        targetCounts == [i \in 1..Len(keys) |-> <<keys[i], Count(targets, keys[i])>>]
        sorted == SortByCountDesc(targetCounts)
    IN  IF IsSome(validation) /\ validation[1].isValid THEN "__end__"
        ELSE IF Len(errors) > 0 THEN errors[1].fixTarget
        ELSE IF Len(sorted) > 0 THEN sorted[1][1]
        ELSE "__end__"

(***************************************************************************)
(* blueprintValidatorNode and blueprintValidatorRouter on their own: the   *)
(* state is drawn from a set of blueprints, then the node is executed, its *)
(* update replaces blueprintValidation and the router is evaluated.        *)
(***************************************************************************)
T_User == <<"U", "s", "e", "r">>

T_Task == <<"T", "a", "s", "k">>

T_Comment == <<"C", "o", "m", "m", "e", "n", "t">>

T_Category == <<"C", "a", "t", "e", "g", "o", "r", "y">>

T_users == <<"u", "s", "e", "r", "s">>

T_Users == <<"U", "s", "e", "r", "s">>

T_tasks == <<"t", "a", "s", "k", "s">>

T_categories == <<"c", "a", "t", "e", "g", "o", "r", "i", "e", "s">>

T_user_tasks == <<"u", "s", "e", "r", "_", "t", "a", "s", "k", "s">>

T_ghost == <<"g", "h", "o", "s", "t">>

T_users_id == <<"u", "s", "e", "r", "s", "(", "i", "d", ")">>

T_ghost_id == <<"g", "h", "o", "s", "t", "(", "i", "d", ")">>

P_users == <<"/", "a", "p", "i", "/", "u", "s", "e", "r", "s">>

P_tasks == <<"/", "a", "p", "i", "/", "t", "a", "s", "k", "s">>

P_Tasks == <<"/", "A", "p", "i", "/", "T", "a", "s", "k", "s">>

P_tasks_id == P_tasks \o <<"/", ":", "i", "d">>

P_tasks_taskId == P_tasks \o <<"/", ":", "t", "a", "s", "k", "I", "d">>

P_ghost == <<"/", "a", "p", "i", "/", "g", "h", "o", "s", "t">>

Entity(name) == [name |-> Some(name)]

Table(name, refs) ==
    [name |-> Some(name),
     foreignKeys |-> Some([i \in 1..Len(refs) |-> [references |-> Some(refs[i])]])]

Endpoint(path, relatedTable, requiresAuth) ==
    [path |-> Some(path), relatedTable |-> relatedTable, requiresAuth |-> requiresAuth]

Page(name, requiresAuth, apiCalls) ==
    [name |-> name, requiresAuth |-> requiresAuth,
     components |-> Some(<< [apiCalls |-> Some(apiCalls)] >>)]

EntityLists ==
    { None,
      Some(<<>>),
      Some(<<Entity(T_User), Entity(T_Task)>>),
      Some(<<Entity(T_User), Entity(T_Task), Entity(T_Comment)>>),
      Some(<<Entity(T_Category), Entity(T_ghost)>>),
      Some(<<Entity(T_User), [name |-> None]>>) }

Schemas ==
    { None,
      Some([tables |-> None]),
      Some([tables |-> Some(<<>>)]),
      Some([tables |-> Some(<<Table(T_users, <<>>), Table(T_tasks, <<T_users_id>>)>>)]),
      Some([tables |-> Some(<<Table(T_Users, <<>>), Table(T_tasks, <<T_users_id>>)>>)]),
      Some([tables |-> Some(<<Table(T_users, <<>>), Table(T_tasks, <<T_ghost_id, T_ghost>>)>>)]),
      Some([tables |-> Some(<<Table(T_categories, <<>>), Table(T_user_tasks, <<>>),
                              [name |-> Some(T_ghost), foreignKeys |-> None]>>)]),
      Some([tables |-> Some(<<Table(T_users, <<>>), [name |-> None, foreignKeys |-> None]>>)]) }

EndpointLists ==
    { None,
      Some(<<>>),
      Some(<<Endpoint(P_users, Some(T_users), TRUE), Endpoint(P_tasks, Some(T_tasks), TRUE)>>),
      Some(<<Endpoint(P_tasks_id, Some(T_ghost), FALSE), Endpoint(P_users, Some(T_Users), FALSE)>>),
      Some(<<Endpoint(P_tasks, None, TRUE),
             [path |-> None, relatedTable |-> Some(T_categories), requiresAuth |-> TRUE]>>) }

PageLists ==
    { None,
      Some(<<>>),
      Some(<<Page("Dashboard", TRUE, <<P_tasks>>)>>),
      Some(<<Page("Home", FALSE, <<P_Tasks, P_users>>), Page("Admin", FALSE, <<P_ghost>>)>>),
      Some(<<Page("Detail", FALSE, <<P_tasks_taskId, P_ghost, P_ghost>>),
             [name |-> "Empty", requiresAuth |-> FALSE, components |-> None]>>) }

MaxIncomingCycles == 3

Blueprints ==
    { [entities |-> e, dbSchema |-> d, apiEndpoints |-> a, frontendPages |-> p,
       folderStructure |-> Some("tree"), dependencies |-> Some("deps")] :
          e \in EntityLists, d \in Schemas, a \in EndpointLists, p \in PageLists }

ValidatorStates ==
    { [blueprint |-> Some(b), blueprintValidation |-> v] :
          b \in Blueprints,
          v \in {None} \cup {Some(Validation(FALSE, <<>>, c)) : c \in 0..MaxIncomingCycles} }
    \cup { [blueprint |-> None, blueprintValidation |-> None] }

NoOut == [raised |-> FALSE, update |-> EmptyUpdate]

InitValIdle ==
    /\ vState = [blueprint |-> None, blueprintValidation |-> None]
    /\ vDone = FALSE
    /\ vOut = NoOut
    /\ vNew = vState
    /\ vRoute = "none"

InitValidator ==
    /\ vState \in ValidatorStates
    /\ vDone = FALSE
    /\ vOut = NoOut
    /\ vNew = vState
    /\ vRoute = "none"

\* config/state.js lines 82-85: (_, y) => y ?? { isValid: false, issues: [], validationCycles: 0 }
ReduceBlueprintValidation(current, y) ==
    IF IsSome(y) THEN y ELSE Some(Validation(FALSE, <<>>, 0))

\* one step of the graph at the node blueprintValidator: the node, the
\* reducer of the key it returns, then the conditional edge (graph.js 68-75)
ValidatorStep ==
    /\ ~vDone
    /\ vDone' = TRUE
    /\ vOut' = blueprintValidatorNode(vState)
    /\ IF vOut'.raised
       THEN UNCHANGED <<vNew, vRoute>>
       ELSE /\ vNew' = [vState EXCEPT !.blueprintValidation =
                            ReduceBlueprintValidation(@, vOut'.update.blueprintValidation)]
            /\ vRoute' = blueprintValidatorRouter(vNew')
    /\ UNCHANGED <<vState, callVars, runVars>>

ValidatorNext == ValidatorStep

(***************************************************************************)
(* blueprintValidatorRouter on its own, on any list of issues (as in       *)
(* tests/test-validator.js, test6).                                        *)
(***************************************************************************)
MaxIssues == 4

FixTargets == {"architectStep2", "architectStep3", "architectStep4"}

AnyIssues ==
    {Issue("any", sev, t, <<>>) : sev \in {"error", "warning"}, t \in FixTargets}

IssueLists == UNION {[1..n -> AnyIssues] : n \in 0..MaxIssues}

InitRouter ==
    /\ vState \in {[blueprint |-> None, blueprintValidation |-> Some(Validation(ok, is, 1))] :
                       ok \in BOOLEAN, is \in IssueLists}
    /\ vDone = FALSE
    /\ vOut = NoOut
    /\ vNew = vState
    /\ vRoute = "none"

RouterStep ==
    /\ ~vDone
    /\ vDone' = TRUE
    /\ vRoute' = blueprintValidatorRouter(vState)
    /\ UNCHANGED <<vState, vOut, vNew, callVars, runVars>>

RouterNext == RouterStep



(***************************************************************************)
(* One invocation of callGemini on its own: the arguments and the          *)
(* responses of the service are drawn from small sets.                     *)
(***************************************************************************)
DOLLAR == 100000000

CallCosts == {0, 165, (9 * DOLLAR) \div 5, 2 * DOLLAR, 3 * DOLLAR}

CallBudgets == {0, 165, 2 * DOLLAR}

PromptLens == {9, 16}

MaxUsage == 2

Texts ==
    {[fence |-> f, body |-> b, len |-> l] :
        f \in BOOLEAN, b \in {"json", "garbage"}, l \in {5}} \cup
    {[fence |-> FALSE, body |-> "empty", len |-> 0]}

CallResponses ==
    {[text |-> t, promptTokenCount |-> i, candidatesTokenCount |-> o, parsed |-> "payload"] :
        t \in Texts, i \in {0, MaxUsage}, o \in {0, MaxUsage}}

CallNext ==
    \/ \E c \in CallCosts, b \in CallBudgets, l \in PromptLens :
            callGemini("pmAgent", c, b, l)
    \/ ChannelFailure
    \/ BackoffElapsed
    \/ \E r \in CallResponses : ParseFailure(r)
    \/ \E r \in CallResponses : Success(r)


(***************************************************************************)
(* AgentState (config/state.js): the channels the nodes of this graph read *)
(* and write, their defaults and their reducers.  The channels of later    *)
(* phases (fileRegistry, reviewResult, ...) are written by no node of      *)
(* buildGraph and are left out.                                            *)
(***************************************************************************)
\* lines 72-79
DefaultBlueprint ==
    [entities |-> Some(<<>>), dbSchema |-> Some([tables |-> None]),
     apiEndpoints |-> Some(<<>>), frontendPages |-> Some(<<>>),
     folderStructure |-> Some(""), dependencies |-> Some("{}")]

\* lines 212-217
DefaultTokenUsage == [calls |-> <<>>, totalInput |-> 0, totalOutput |-> 0, estimatedCost |-> 0]

\* the default of every channel
DefaultState ==
    [userRequirement     |-> "",
     pmStatus            |-> "idle",
     pmQuestions         |-> <<>>,
     pmConversation      |-> <<>>,
     clarifiedSpec       |-> None,
     blueprint           |-> Some(DefaultBlueprint),
     blueprintValidation |-> Some(Validation(FALSE, <<>>, 0)),
     taskQueue           |-> [phases |-> <<>>],
     currentPhaseIndex   |-> 0,
     currentTaskIndex    |-> 0,
     sandboxId           |-> "",
     sandboxHealthy      |-> FALSE,
     tokenUsage          |-> DefaultTokenUsage,
     tokenBudget         |-> 2 * DOLLAR,
     currentPhase        |-> "pm",
     error               |-> None,
     fileRegistry        |-> <<>>,
     userFeedback        |-> <<>>]

\* (_, y) => y ?? d
Replace(y, d) == IF IsSome(y) THEN y[1] ELSE d

ReducePmConversation_resetting(existing, incoming) ==
    IF ~IsSome(incoming) THEN <<>> ELSE existing \o incoming[1]

\* lines 50-57
ReducePmConversation(existing, incoming) ==
    IF ~IsSome(incoming) THEN existing ELSE existing \o incoming[1]

\* { ...existing, ...incoming }
Spread(existing, incoming) ==
    [k \in DOMAIN existing \cup DOMAIN incoming |->
        IF k \in DOMAIN incoming THEN incoming[k] ELSE existing[k]]

ReduceBlueprint_fromDefault(existing, incoming) ==
    IF ~IsSome(incoming) THEN existing ELSE Some(Spread(DefaultBlueprint, incoming[1]))

\* lines 66-70
ReduceBlueprint(existing, incoming) ==
    IF ~IsSome(incoming) THEN existing ELSE Some(Spread(existing[1], incoming[1]))

\* Map.prototype.set: an entry whose path is already a key takes the place
\* of the old one, a new path goes to the end
MapSet(map, entry) ==
    IF \E i \in DOMAIN map : map[i].path = entry.path
    THEN [i \in DOMAIN map |-> IF map[i].path = entry.path THEN entry ELSE map[i]]
    ELSE Append(map, entry)

RECURSIVE MapSetAll(_, _)
MapSetAll(map, entries) ==
    IF entries = <<>> THEN map
    ELSE MapSetAll(MapSet(map, Head(entries)), Tail(entries))

ReduceFileRegistry_appending(existing, incoming) ==
    IF ~IsSome(incoming) THEN existing ELSE existing \o incoming[1]

\* lines 105-117; an incoming value is absent or an array
ReduceFileRegistry(existing, incoming) ==
    IF ~IsSome(incoming) THEN existing
    ELSE MapSetAll(MapSetAll(<<>>, existing), incoming[1])

\* lines 164-170
ReduceUserFeedback(existing, incoming) ==
    IF ~IsSome(incoming) THEN existing ELSE existing \o incoming[1]

ReduceTokenUsage_replacing(existing, incoming) ==
    IF ~IsSome(incoming) THEN existing
    ELSE [calls         |-> existing.calls \o incoming[1].newCalls,
          totalInput    |-> incoming[1].addedInput,
          totalOutput   |-> incoming[1].addedOutput,
          estimatedCost |-> existing.estimatedCost + incoming[1].addedCost]

\* lines 203-211
ReduceTokenUsage(existing, incoming) ==
    IF ~IsSome(incoming) THEN existing
    ELSE [calls         |-> existing.calls \o incoming[1].newCalls,
          totalInput    |-> existing.totalInput + incoming[1].addedInput,
          totalOutput   |-> existing.totalOutput + incoming[1].addedOutput,
          estimatedCost |-> existing.estimatedCost + incoming[1].addedCost]

\* the reducer of each channel, applied to the value y a node returned
Reduce(channel, existing, y) ==
    CASE channel = "userRequirement"     -> Replace(y, "")
      [] channel = "pmStatus"            -> Replace(y, "idle")
      [] channel = "pmQuestions"         -> Replace(y, <<>>)
      [] channel = "pmConversation"      -> ReducePmConversation(existing, y)
      [] channel = "clarifiedSpec"       -> y
      [] channel = "blueprint"           -> ReduceBlueprint(existing, y)
      [] channel = "blueprintValidation" -> ReduceBlueprintValidation(existing, y)
      [] channel = "taskQueue"           -> Replace(y, [phases |-> <<>>])
      [] channel = "currentPhaseIndex"   -> Replace(y, 0)
      [] channel = "currentTaskIndex"    -> Replace(y, 0)
      [] channel = "sandboxId"           -> Replace(y, "")
      [] channel = "sandboxHealthy"      -> Replace(y, FALSE)
      [] channel = "tokenUsage"          -> ReduceTokenUsage(existing, y)
      [] channel = "tokenBudget"         -> Replace(y, 2 * DOLLAR)
      [] channel = "currentPhase"        -> Replace(y, "pm")
      [] channel = "error"               -> y
      [] channel = "fileRegistry"        -> ReduceFileRegistry(existing, y)
      [] channel = "userFeedback"        -> ReduceUserFeedback(existing, y)

\* the update a node returned is merged channel by channel: a channel the
\* update does not name keeps its value
ApplyUpdate(s, update) ==
    [channel \in DOMAIN s |->
        IF channel \in DOMAIN update THEN Reduce(channel, s[channel], update[channel])
        ELSE s[channel]]

\* what a node function did: it raised, or it returned an update
Raised == [raised |-> TRUE, update |-> EmptyUpdate]

Returned(update) == [raised |-> FALSE, update |-> update]

(***************************************************************************)
(* The node functions, as functions of the state and of what callGemini    *)
(* returned.                                                               *)
(***************************************************************************)
ConversationEntry(role, questions, answers, spec) ==
    [role |-> role, questions |-> questions, answers |-> answers, spec |-> spec]

pmAgentNode_passesStatus(s, result) ==
    LET response   == result.parsed[1]
        tokenDelta == makeTokenDelta("pmAgent", result.tokens[1])
    IN  IF response.status = "needs_clarification"
        THEN IF ~IsSome(response.questions) THEN Raised
             ELSE Returned(
                   [pmStatus       |-> Some("needs_clarification"),
                    pmQuestions    |-> response.questions,
                    pmConversation |-> Some(<<ConversationEntry("pm", response.questions,
                                                                None, None)>>),
                    tokenUsage     |-> Some(tokenDelta),
                    currentPhase   |-> Some("pm")])
        ELSE IF response.status = "spec_ready" /\ ~IsSome(response.spec) THEN Raised
        ELSE Returned(
              [pmStatus      |-> Some(response.status),
               clarifiedSpec |-> IF IsSome(response.spec) THEN response.spec
                                 ELSE Some([appName |-> None]),
               tokenUsage    |-> Some(tokenDelta),
               currentPhase  |-> Some("architect")])

\* agents/pmAgent.js lines 93-139 (after callGemini has returned)
pmAgentNode(s, result) ==
    LET response   == result.parsed[1]
        tokenDelta == makeTokenDelta("pmAgent", result.tokens[1])
    IN  IF response.status = "needs_clarification"
        THEN IF ~IsSome(response.questions) THEN Raised
             ELSE Returned(
                   [pmStatus       |-> Some("needs_clarification"),
                    pmQuestions    |-> response.questions,
                    pmConversation |-> Some(<<ConversationEntry("pm", response.questions,
                                                                None, None)>>),
                    tokenUsage     |-> Some(tokenDelta),
                    currentPhase   |-> Some("pm")])
        ELSE IF response.status = "spec_ready"
        THEN IF ~IsSome(response.spec) THEN Raised
             ELSE Returned(
                   [pmStatus       |-> Some("spec_ready"),
                    clarifiedSpec  |-> response.spec,
                    pmConversation |-> Some(<<ConversationEntry("pm", None, None,
                                                                response.spec)>>),
                    tokenUsage     |-> Some(tokenDelta),
                    currentPhase   |-> Some("architect")])
        ELSE Returned(
              [pmStatus      |-> Some("spec_ready"),
               clarifiedSpec |-> IF IsSome(response.spec) THEN response.spec
                                 ELSE Some([appName |-> None]),
               tokenUsage    |-> Some(tokenDelta),
               currentPhase  |-> Some("architect")])

\* nodes/humanInput.js lines 42-75
humanInputNode(s, answer) ==
    IF Len(s.pmQuestions) = 0 THEN Returned(EmptyUpdate)
    ELSE Returned(
          [pmConversation |-> Some(<<ConversationEntry("user", None, Some(answer), None)>>),
           pmStatus       |-> Some("idle")])

\* agents/architectAgent.js lines 48-54
architectStep1Node(s, result) ==
    Returned([blueprint  |-> Some([entities |-> result.parsed[1].entities]),
              tokenUsage |-> Some(makeTokenDelta("architectStep1", result.tokens[1]))])

\* lines 104-111
architectStep2Node(s, result) ==
    Returned([blueprint  |-> Some([dbSchema |-> Some(result.parsed[1])]),
              tokenUsage |-> Some(makeTokenDelta("architectStep2", result.tokens[1]))])

\* lines 160-166: parsed.apiEndpoints || parsed, kept when it is an array
architectStep3Node(s, result) ==
    LET endpoints == IF IsSome(result.parsed[1].apiEndpoints)
                     THEN result.parsed[1].apiEndpoints[1] ELSE <<>>
    IN  Returned([blueprint  |-> Some([apiEndpoints |-> Some(endpoints)]),
                  tokenUsage |-> Some(makeTokenDelta("architectStep3", result.tokens[1]))])

\* lines 214-220
architectStep4Node(s, result) ==
    LET pages == IF IsSome(result.parsed[1].frontendPages)
                 THEN result.parsed[1].frontendPages[1] ELSE <<>>
    IN  Returned([blueprint  |-> Some([frontendPages |-> Some(pages)]),
                  tokenUsage |-> Some(makeTokenDelta("architectStep4", result.tokens[1]))])

\* lines 267-278
architectStep5Node(s, result) ==
    Returned([blueprint  |-> Some([folderStructure |-> result.parsed[1].folderStructure,
                                   dependencies    |-> result.parsed[1].dependencies]),
              tokenUsage |-> Some(makeTokenDelta("architectStep5", result.tokens[1]))])

\* agents/plannerAgent.js lines 353-379
plannerAgentNode(s, result) ==
    Returned([taskQueue         |-> Some(result.parsed[1]),
              currentPhaseIndex |-> Some(0),
              currentTaskIndex  |-> Some(0),
              tokenUsage        |-> Some(makeTokenDelta("plannerAgent", result.tokens[1])),
              currentPhase      |-> Some("sandbox")])

setupSandboxNode_noError(s, created) ==
    IF IsSome(created)
    THEN Returned([sandboxId |-> created, currentPhase |-> Some("sandbox")])
    ELSE Returned([sandboxId |-> Some("")])

\* nodes/setupSandbox.js lines 88-109; created is the sandbox id when
\* createSandbox resolved, None when it rejected
setupSandboxNode(s, created) ==
    IF IsSome(created)
    THEN Returned([sandboxId |-> created, currentPhase |-> Some("sandbox")])
    ELSE Returned([sandboxId |-> Some(""), error |-> Some("Sandbox creation failed")])

\* nodes/sandboxHealthCheck.js lines 298-332
sandboxHealthCheckNode(s, healthy) ==
    IF s.sandboxId = ""
    THEN Returned([sandboxHealthy |-> Some(FALSE), error |-> Some("No sandbox ID")])
    ELSE IF healthy THEN Returned([sandboxHealthy |-> Some(TRUE)])
    ELSE Returned([sandboxHealthy |-> Some(FALSE), error |-> Some("Sandbox unhealthy")])

\* lines 335-344
sandboxHealthRouter(s) == IF s.sandboxHealthy THEN "__end__" ELSE "__end__"

(***************************************************************************)
(* The graph (config/graph.js).                                            *)
(***************************************************************************)
pmAgentRouter_noSpecReady(s) ==
    IF s.pmStatus = "needs_clarification" THEN "humanInput" ELSE "__end__"

\* lines 52-56
pmAgentRouter(s) ==
    IF s.pmStatus = "needs_clarification" THEN "humanInput"
    ELSE IF s.pmStatus = "spec_ready" THEN "architectStep1"
    ELSE "__end__"

\* lines 68-73: the keys of the path map of the validator's conditional edges
ValidatorPathKeys == {"__end__", "architectStep2", "architectStep3", "architectStep4"}

\* lines 68-73: the path map; a value that is not a key names no node
ValidatorPathMap(route) ==
    CASE route = "__end__"        -> "plannerAgent"
      [] route = "architectStep2" -> "architectStep2"
      [] route = "architectStep3" -> "architectStep3"
      [] route = "architectStep4" -> "architectStep4"
      [] OTHER                    -> "__unknown__"

\* lines 81-84
SandboxPathMap(route) == route

NextNode_skipsStep5(n, s) ==
    CASE n = "pmAgent"            -> pmAgentRouter(s)
      [] n = "humanInput"         -> "pmAgent"
      [] n = "architectStep1"     -> "architectStep2"
      [] n = "architectStep2"     -> "architectStep3"
      [] n = "architectStep3"     -> "architectStep4"
      [] n = "architectStep4"     -> "blueprintValidator"
      [] n = "architectStep5"     -> "blueprintValidator"
      [] n = "blueprintValidator" -> ValidatorPathMap(blueprintValidatorRouter(s))
      [] n = "plannerAgent"       -> "setupSandbox"
      [] n = "setupSandbox"       -> "sandboxHealthCheck"
      [] n = "sandboxHealthCheck" -> SandboxPathMap(sandboxHealthRouter(s))

\* the edges: the node that follows node n in state s (the state after n)
NextNode(n, s) ==
    CASE n = "pmAgent"            -> pmAgentRouter(s)
      [] n = "humanInput"         -> "pmAgent"
      [] n = "architectStep1"     -> "architectStep2"
      [] n = "architectStep2"     -> "architectStep3"
      [] n = "architectStep3"     -> "architectStep4"
      [] n = "architectStep4"     -> "architectStep5"
      [] n = "architectStep5"     -> "blueprintValidator"
      [] n = "blueprintValidator" -> ValidatorPathMap(blueprintValidatorRouter(s))
      [] n = "plannerAgent"       -> "setupSandbox"
      [] n = "setupSandbox"       -> "sandboxHealthCheck"
      [] n = "sandboxHealthCheck" -> SandboxPathMap(sandboxHealthRouter(s))

(***************************************************************************)
(* A run: main (index.js) invokes the graph on the requirement and the     *)
(* budget; the service's responses, the user's answers and the sandbox     *)
(* outcomes are drawn from small sets.                                     *)
(***************************************************************************)
LLMNodes ==
    {"pmAgent", "architectStep1", "architectStep2", "architectStep3",
     "architectStep4", "architectStep5", "plannerAgent"}

MaxClarifications == 1

\* the budgets a run is started with: one that is exceeded on the way, and $2.00
RunBudgets == {24000, 2 * DOLLAR}

\* the number of rounds of questions the PM agent has asked
ClarificationsAsked(s) ==
    Cardinality({i \in DOMAIN s.pmConversation : IsSome(s.pmConversation[i].questions)})

\* systemPrompt.length + userPrompt.length (gemini.js line 75): the prompt
\* of steps 2-4 grows by the fix context when there are validation issues
PromptLen(n, s) ==
    IF /\ n \in {"architectStep2", "architectStep3", "architectStep4"}
       /\ Len(s.blueprintValidation[1].issues) > 0
    THEN 400 ELSE 200

\* what the service can answer to the PM agent
PmPayloads(s) ==
    { [status |-> "spec_ready", questions |-> None, spec |-> Some([appName |-> Some("todo")])],
      [status |-> "done", questions |-> None, spec |-> None] }
    \cup
    IF ClarificationsAsked(s) < MaxClarifications
    THEN { [status |-> "needs_clarification", questions |-> Some(<<"q1">>), spec |-> None],
           [status |-> "needs_clarification", questions |-> Some(<<>>), spec |-> None],
           [status |-> "needs_clarification", questions |-> None, spec |-> None] }
    ELSE {}

CleanSchema == [tables |-> Some(<<Table(T_users, <<>>), Table(T_tasks, <<T_users_id>>)>>)]

DanglingSchema == [tables |-> Some(<<Table(T_users, <<>>), Table(T_tasks, <<T_ghost_id>>)>>)]

NamelessSchema ==
    [tables |-> Some(<<Table(T_users, <<>>), [name |-> None, foreignKeys |-> None]>>)]

CleanEndpoints ==
    <<Endpoint(P_users, Some(T_users), TRUE), Endpoint(P_tasks, Some(T_tasks), TRUE)>>

OrphanEndpoints ==
    <<Endpoint(P_users, Some(T_users), TRUE), Endpoint(P_tasks, Some(T_ghost), TRUE)>>

CleanPages == <<Page("Dashboard", TRUE, <<P_tasks>>)>>

PublicPages == <<Page("Home", FALSE, <<P_tasks>>)>>

\* what the service can answer to node n
Payloads(n, s) ==
    CASE n = "pmAgent"        -> PmPayloads(s)
      [] n = "architectStep1" -> {[entities |-> Some(<<Entity(T_User), Entity(T_Task)>>)]}
      [] n = "architectStep2" -> {CleanSchema, DanglingSchema, NamelessSchema}
      [] n = "architectStep3" -> {[apiEndpoints |-> Some(CleanEndpoints)],
                                  [apiEndpoints |-> Some(OrphanEndpoints)]}
      [] n = "architectStep4" -> {[frontendPages |-> Some(CleanPages)],
                                  [frontendPages |-> Some(PublicPages)]}
      [] n = "architectStep5" -> {[folderStructure |-> Some("tree"),
                                   dependencies |-> Some("deps")]}
      [] n = "plannerAgent"   -> {[phases |-> <<"setup", "backend">>]}

\* the usage metadata of the answers to node n: the PM agent's and the
\* planner's carry none, so that the estimate of gemini.js lines 75-76 is used
UsageOf(n) ==
    IF n \in {"pmAgent", "plannerAgent"} THEN [input |-> 0, output |-> 0]
    ELSE [input |-> 120, output |-> 40]

JsonText == [fence |-> TRUE, body |-> "json", len |-> 80]

GarbageText == [fence |-> FALSE, body |-> "garbage", len |-> 80]

NodeResponses(n, s) ==
    {[text |-> JsonText, promptTokenCount |-> UsageOf(n).input,
      candidatesTokenCount |-> UsageOf(n).output, parsed |-> p] : p \in Payloads(n, s)}

GarbageResponse(n) ==
    [text |-> GarbageText, promptTokenCount |-> UsageOf(n).input,
     candidatesTokenCount |-> UsageOf(n).output, parsed |-> "none"]

Answers == {"a1"}

SandboxOutcomes == {None, Some("sandbox-1")}

\* index.js lines 170-176: the input of graph.invoke merged into the defaults
InitialState(requirement, budget) ==
    ApplyUpdate(DefaultState, [userRequirement |-> Some(requirement),
                               tokenBudget     |-> Some(budget)])

\* the safety ceiling of the engine: the number of nodes one graph.invoke
\* may execute; no recursionLimit is passed in the config (index.js 164-168)
RECURSION_LIMIT == 25

\* the process is started at most MaxRestarts times after its first start
MaxRestarts == 1

\* the values Date.now() takes at the starts of the process, in order
ThreadIds == 1..(MaxRestarts + 1)

\* what the checkpointer keeps of a thread: the channel values and the node
\* to execute next
Checkpoint(values, next) == [values |-> values, next |-> next]

NoCheckpoints == [t \in ThreadIds |-> None]

Put(store, thread, checkpoint) == [store EXCEPT ![thread] = Some(checkpoint)]

NoRedis == [redisUrl |-> FALSE, importOk |-> FALSE, connectOk |-> FALSE]

createCheckpointer_ignoresFailure(e) ==
    IF e.redisUrl THEN "redis" ELSE "memory"

\* graph.js lines 96-111: the import or RedisSaver.fromUrl may throw, which
\* the catch turns into the MemorySaver of line 110
createCheckpointer(e) ==
    IF e.redisUrl
    THEN IF e.importOk /\ e.connectOk THEN "redis" ELSE "memory"
    ELSE "memory"

\* graph.js line 89: checkpointer || new MemorySaver()
buildGraph(checkpointer) == IF IsSome(checkpointer) THEN checkpointer[1] ELSE "memory"

MaxSandboxes == 2

\* the ids createSandbox can build, and one (0) that it never builds
SandboxIds == 0..MaxSandboxes

NoSbResult == [op |-> "none", id |-> 0, raised |-> FALSE, value |-> "none"]

\* sandboxManager.js line 41: const sandboxes = new Map()
InitSandboxes ==
    /\ sandboxes = [i \in SandboxIds |-> None]
    /\ disk = [i \in SandboxIds |-> None]
    /\ nextSandbox = 1
    /\ sbResult = NoSbResult

InitRunIdle ==
    /\ state = DefaultState
    /\ node = "__start__"
    /\ runStatus = "idle"
    /\ billed = <<>>
    /\ passes = <<>>
    /\ applied = <<>>
    /\ threadId = 0
    /\ saver = "memory"
    /\ saved = NoCheckpoints
    /\ steps = 0
    /\ trace = <<>>
    /\ crashedAt = None
    /\ env = NoRedis
    /\ InitSandboxes

\* graph.js line 50: START -> pmAgent
InitRun ==
    /\ state \in {InitialState("todo app", b) : b \in RunBudgets}
    /\ node = "pmAgent"
    /\ runStatus = "running"
    /\ billed = <<>>
    /\ passes = <<>>
    /\ applied = <<>>
    /\ threadId = 1
    /\ env = NoRedis
    /\ InitSandboxes
    /\ saver = buildGraph(None)
    /\ saved = Put(NoCheckpoints, threadId, Checkpoint(state, node))
    /\ steps = 0
    /\ trace = <<>>
    /\ crashedAt = None

\* the engine starts node n: the run has not ended and has steps left
Running(n) == runStatus = "running" /\ node = n /\ steps < RECURSION_LIMIT

EnterNode_defaultCost ==
    /\ runStatus = "running"
    /\ node \in LLMNodes
    /\ steps < RECURSION_LIMIT
    /\ callGemini(node, 0, state.tokenBudget, PromptLen(node, state))

\* a node that calls the service is entered: its callGemini invocation starts
EnterNode ==
    /\ runStatus = "running"
    /\ node \in LLMNodes
    /\ steps < RECURSION_LIMIT
    /\ callGemini(node, state.tokenUsage.estimatedCost, state.tokenBudget,
                  PromptLen(node, state))

\* the service answers the node that is waiting
Respond ==
    /\ runStatus = "running"
    /\ node \in LLMNodes
    /\ \E r \in NodeResponses(node, state) : Success(r)

\* the service answers with text that is not JSON
RespondGarbage ==
    /\ runStatus = "running"
    /\ node \in LLMNodes
    /\ ParseFailure(GarbageResponse(node))

NodeThrows_recordsError ==
    /\ runStatus = "running"
    /\ pc = "failed"
    /\ runStatus' = "aborted"
    /\ state' = ApplyUpdate(state, [error |-> Some(callResult.error)])
    /\ UNCHANGED <<node, saved, steps, trace, billed, passes, applied, procVars, callVars, valVars>>

\* callGemini threw: the node function rejects, graph.invoke rejects and
\* main exits (index.js lines 229-239)
NodeThrows ==
    /\ runStatus = "running"
    /\ pc = "failed"
    /\ runStatus' = "aborted"
    /\ UNCHANGED <<state, node, saved, steps, trace, billed, passes, applied, procVars, callVars, valVars>>

ResetCall ==
    /\ pc' = "idle"
    /\ attempt' = 0
    /\ callsIssued' = 0
    /\ waits' = <<>>
    /\ outcomes' = <<>>
    /\ lastError' = "null"
    /\ callArgs' = [agentName |-> "unknown", currentCost |-> 0, tokenBudget |-> 0,
                    promptLen |-> 0]
    /\ callResult' = NoResult

Commit_uncounted(n, update) ==
    /\ state' = ApplyUpdate(state, update)
    /\ node' = NextNode(n, state')
    /\ runStatus' = IF node' = "__end__" THEN "done" ELSE "running"
    /\ saved' = Put(saved, threadId, Checkpoint(state', node'))
    /\ steps' = steps
    /\ trace' = Append(trace, n)

\* the update of node n is merged, the edge out of n is followed and the
\* checkpointer the graph was compiled with saves the step (graph.js 89-90)
Commit(n, update) ==
    /\ state' = ApplyUpdate(state, update)
    /\ node' = NextNode(n, state')
    /\ runStatus' = IF node' = "__end__" THEN "done" ELSE "running"
    /\ saved' = Put(saved, threadId, Checkpoint(state', node'))
    /\ steps' = steps + 1
    /\ trace' = Append(trace, n)

\* a node that called the service finishes with what callGemini returned
FinishLLMNode(n, out) ==
    /\ pc = "returned"
    /\ IF out.raised
       THEN /\ runStatus' = "aborted"
            /\ UNCHANGED <<state, node, saved, steps, trace, billed, callVars>>
       ELSE /\ Commit(n, out.update)
            /\ billed' = Append(billed, [agent |-> n, tokens |-> callResult.tokens[1]])
            /\ ResetCall
    /\ UNCHANGED <<passes, applied, procVars, valVars>>

pmAgent ==
    /\ Running("pmAgent")
    /\ FinishLLMNode("pmAgent", pmAgentNode(state, callResult))

architectStep1 ==
    /\ Running("architectStep1")
    /\ FinishLLMNode("architectStep1", architectStep1Node(state, callResult))

architectStep2 ==
    /\ Running("architectStep2")
    /\ FinishLLMNode("architectStep2", architectStep2Node(state, callResult))

architectStep3 ==
    /\ Running("architectStep3")
    /\ FinishLLMNode("architectStep3", architectStep3Node(state, callResult))

architectStep4 ==
    /\ Running("architectStep4")
    /\ FinishLLMNode("architectStep4", architectStep4Node(state, callResult))

architectStep5 ==
    /\ Running("architectStep5")
    /\ FinishLLMNode("architectStep5", architectStep5Node(state, callResult))

plannerAgent ==
    /\ Running("plannerAgent")
    /\ FinishLLMNode("plannerAgent", plannerAgentNode(state, callResult))

humanInput ==
    /\ Running("humanInput")
    /\ \E answer \in Answers : Commit("humanInput", humanInputNode(state, answer).update)
    /\ UNCHANGED <<billed, passes, applied, procVars, callVars, valVars>>

blueprintValidator ==
    /\ Running("blueprintValidator")
    /\ LET out == blueprintValidatorNode(state)
       IN  IF out.raised
           THEN /\ runStatus' = "aborted"
                /\ UNCHANGED <<state, node, saved, steps, trace, passes>>
           ELSE /\ Commit("blueprintValidator", out.update)
                /\ passes' = Append(passes,
                       [incoming |-> CurrentCycles(state),
                        returned |-> out.update.blueprintValidation[1],
                        route    |-> blueprintValidatorRouter(state'),
                        next     |-> node'])
    /\ UNCHANGED <<billed, applied, procVars, callVars, valVars>>

setupSandbox ==
    /\ Running("setupSandbox")
    /\ \E created \in SandboxOutcomes :
           Commit("setupSandbox", setupSandboxNode(state, created).update)
    /\ UNCHANGED <<billed, passes, applied, procVars, callVars, valVars>>

sandboxHealthCheck ==
    /\ Running("sandboxHealthCheck")
    /\ \E healthy \in BOOLEAN :
           Commit("sandboxHealthCheck", sandboxHealthCheckNode(state, healthy).update)
    /\ UNCHANGED <<billed, passes, applied, procVars, callVars, valVars>>

Next ==
    \/ EnterNode
    \/ ChannelFailure
    \/ BackoffElapsed
    \/ RespondGarbage
    \/ Respond
    \/ NodeThrows
    \/ pmAgent
    \/ humanInput
    \/ architectStep1
    \/ architectStep2
    \/ architectStep3
    \/ architectStep4
    \/ architectStep5
    \/ blueprintValidator
    \/ plannerAgent
    \/ setupSandbox
    \/ sandboxHealthCheck

Init == InitCall /\ InitValIdle /\ InitRun

Spec == Init /\ [][Next]_vars

(***************************************************************************)
(* The parts on their own.                                                 *)
(***************************************************************************)
CallInit == InitCall /\ InitValIdle /\ InitRunIdle

SpecCall == CallInit /\ [][CallNext]_vars

ValidatorInit == InitCall /\ InitValidator /\ InitRunIdle

SpecValidator == ValidatorInit /\ [][ValidatorNext]_vars

RouterInit == InitCall /\ InitRouter /\ InitRunIdle

SpecRouter == RouterInit /\ [][RouterNext]_vars

(***************************************************************************)
(* Properties of one callGemini invocation (checked under SpecCall).       *)
(***************************************************************************)
OutcomeKinds == [i \in 1..Len(outcomes) |-> outcomes[i].kind]

\* C1: once callGemini has been invoked with currentCost >= tokenBudget it has
\* failed with TOKEN_BUDGET_EXCEEDED and no generateContent call, no attempt,
\* no retry and no backoff wait has happened; with currentCost < tokenBudget
\* the first attempt has been issued.
C1_BudgetGuard ==
    pc # "idle" =>
        IF callArgs.currentCost >= callArgs.tokenBudget
        THEN /\ pc = "failed"
             /\ callResult.error = "TOKEN_BUDGET_EXCEEDED"
             /\ callsIssued = 0
             /\ attempt = 0
             /\ waits = <<>>
             /\ outcomes = <<>>
        ELSE /\ callsIssued >= 1
             /\ attempt >= 1
             /\ callResult.error # "TOKEN_BUDGET_EXCEEDED"

C1_Witness ==
    /\ pc = "failed"
    /\ callArgs.currentCost = 2 * DOLLAR
    /\ callArgs.tokenBudget = 2 * DOLLAR
    /\ callsIssued = 0

\* C2: a returned invocation yields a delta with exactly one call record whose
\* input, output and cost are those of the last (successful) attempt alone,
\* however many attempts failed before it; a failed or unfinished invocation
\* carries no usage from which a delta could be built.
C2_OneDeltaPerSuccess ==
    /\ pc = "returned" =>
          LET d    == makeTokenDelta(callArgs.agentName, callResult.tokens[1])
              last == outcomes[Len(outcomes)]
          IN  /\ callResult.ok
              /\ last.kind = "ok"
              /\ Len(d.newCalls) = 1
              /\ d.newCalls[1].agent = callArgs.agentName
              /\ d.newCalls[1].inputTokens = last.input
              /\ d.newCalls[1].outputTokens = last.output
              /\ d.addedInput = last.input
              /\ d.addedOutput = last.output
              /\ d.addedCost = 15 * last.input + 60 * last.output
    /\ pc # "returned" => callResult.tokens = None /\ ~callResult.ok

C2_Witness ==
    /\ pc = "returned"
    /\ OutcomeKinds = <<"parse", "channel", "ok">>
    /\ outcomes[1].input > 0

\* C4: three consecutive unparseable outputs make three generateContent calls
\* and then the invocation fails with JSON_PARSE_FAILED, without result and
\* without usage.
C4_ThreeParseFailures ==
    OutcomeKinds = <<"parse", "parse", "parse">> =>
        /\ pc = "failed"
        /\ callResult.error = "JSON_PARSE_FAILED"
        /\ callsIssued = 3
        /\ callResult.parsed = None
        /\ callResult.tokens = None

C4_Witness ==
    /\ OutcomeKinds = <<"parse", "parse", "parse">>
    /\ pc = "failed"

\* C5: whatever the attempts produce, at most 3 generateContent calls are
\* issued, every attempt is one call, the invocation stops at the first
\* attempt that parses, and after a third failed attempt it has failed.
C5_AtMostThreeCalls ==
    /\ callsIssued <= 3
    /\ callsIssued = Len(outcomes) + (IF pc = "awaiting" THEN 1 ELSE 0)
    /\ \A i \in 1..Len(outcomes) :
          outcomes[i].kind = "ok" => i = Len(outcomes) /\ pc = "returned"
    /\ pc = "returned" => outcomes[Len(outcomes)].kind = "ok"
    /\ (Len(outcomes) = 3 /\ outcomes[3].kind # "ok") => pc = "failed"
    /\ pc = "failed" => Len(outcomes) \in {0, 3}

C5_Witness ==
    /\ pc = "failed"
    /\ OutcomeKinds = <<"channel", "parse", "channel">>
    /\ callsIssued = 3

(***************************************************************************)
(* The validation pass and the router.                                     *)
(*                                                                         *)
(* The cross-reference defects of a blueprint, stated as relations between *)
(* its artifacts.  A cross-reference needs both of its sides, so a defect  *)
(* exists only where both artifacts are present; names are compared        *)
(* without regard to case, an entity matches a table named by its singular *)
(* or plural form, a foreign key names a table in the form table(field),   *)
(* and two paths match when they differ only in parameter names.           *)
(***************************************************************************)
ValidatorReturned == vDone /\ ~vOut.raised

ReturnedValidation == vOut.update.blueprintValidation[1]

NamesGiven(blueprint) ==
    /\ IsSome(blueprint.entities) =>
           \A e \in Range(blueprint.entities[1]) : IsSome(e.name)
    /\ IsSome(TablesOf(blueprint)) =>
           \A t \in Range(TablesOf(blueprint)[1]) : IsSome(t.name)

NameMatches(entityName, tableName) ==
    LET e == toLowerCase(entityName)
        t == toLowerCase(tableName)
        forms == {e, e \o <<"s">>, FinalYToIe(e) \o <<"s">>}
    IN  t \in forms \/ StripFinalS(t) \in forms

EntityLacksTable(blueprint) ==
    /\ IsSome(blueprint.entities)
    /\ IsSome(TablesOf(blueprint))
    /\ \E e \in Range(blueprint.entities[1]) :
           \A t \in Range(TablesOf(blueprint)[1]) : ~NameMatches(e.name[1], t.name[1])

DanglingForeignKey(blueprint) ==
    /\ IsSome(TablesOf(blueprint))
    /\ \E t \in Range(TablesOf(blueprint)[1]) :
           /\ IsSome(t.foreignKeys)
           /\ \E fk \in Range(t.foreignKeys[1]) :
                  /\ IsSome(fk.references)
                  /\ IsSome(RefMatch(fk.references[1]))
                  /\ \A u \in Range(TablesOf(blueprint)[1]) :
                         toLowerCase(u.name[1]) # toLowerCase(RefMatch(fk.references[1])[1])

EndpointLacksTable(blueprint) ==
    /\ IsSome(blueprint.apiEndpoints)
    /\ IsSome(TablesOf(blueprint))
    /\ \E ep \in Range(blueprint.apiEndpoints[1]) :
           /\ Truthy(ep.relatedTable)
           /\ \A t \in Range(TablesOf(blueprint)[1]) :
                  toLowerCase(t.name[1]) # toLowerCase(ep.relatedTable[1])

CallsOf(page) ==
    IF IsSome(page.components)
    THEN UNION {Range(c.apiCalls[1]) : c \in {d \in Range(page.components[1]) : IsSome(d.apiCalls)}}
    ELSE {}

PathMatches(apiCall, path) ==
    \/ toLowerCase(path) = toLowerCase(apiCall)
    \/ NormalizeParams(toLowerCase(path)) = NormalizeParams(toLowerCase(apiCall))

PageCallsMissingApi(blueprint) ==
    /\ IsSome(blueprint.frontendPages)
    /\ IsSome(blueprint.apiEndpoints)
    /\ \E page \in Range(blueprint.frontendPages[1]) :
           \E call \in CallsOf(page) :
               \A ep \in Range(blueprint.apiEndpoints[1]) :
                   ~(IsSome(ep.path) /\ PathMatches(call, ep.path[1]))

PublicPageCallsAuthApi(blueprint) ==
    /\ IsSome(blueprint.frontendPages)
    /\ IsSome(blueprint.apiEndpoints)
    /\ \E page \in Range(blueprint.frontendPages[1]) :
           /\ ~page.requiresAuth
           /\ \E call \in CallsOf(page) :
                  \E ep \in Range(blueprint.apiEndpoints[1]) :
                      /\ ep.requiresAuth
                      /\ IsSome(ep.path)
                      /\ toLowerCase(ep.path[1]) = toLowerCase(call)

UnreferencedTable(blueprint) ==
    /\ IsSome(TablesOf(blueprint))
    /\ IsSome(blueprint.apiEndpoints)
    /\ \E t \in Range(TablesOf(blueprint)[1]) :
           /\ ~IsJunction(toLowerCase(t.name[1]))
           /\ \A ep \in Range(blueprint.apiEndpoints[1]) :
                  ~(Truthy(ep.relatedTable)
                    /\ toLowerCase(ep.relatedTable[1]) = toLowerCase(t.name[1]))

HasDefect(blueprint) ==
    \/ EntityLacksTable(blueprint)
    \/ DanglingForeignKey(blueprint)
    \/ EndpointLacksTable(blueprint)
    \/ PageCallsMissingApi(blueprint)
    \/ PublicPageCallsAuthApi(blueprint)
    \/ UnreferencedTable(blueprint)

C8_CleanBlueprint ==
    (/\ vDone
     /\ IsSome(vState.blueprint)
     /\ NamesGiven(vState.blueprint[1])
     /\ ~HasDefect(vState.blueprint[1])) =>
        /\ ~vOut.raised
        /\ ReturnedValidation.isValid = TRUE
        /\ ReturnedValidation.issues = <<>>

C8_Witness ==
    /\ ValidatorReturned
    /\ CurrentCycles(vState) = 3
    /\ ~HasDefect(vState.blueprint[1])
    /\ vState.blueprint[1].entities = Some(<<Entity(T_User), Entity(T_Task)>>)
    /\ TablesOf(vState.blueprint[1]) =
           Some(<<Table(T_Users, <<>>), Table(T_tasks, <<T_users_id>>)>>)
    /\ IsSome(vState.blueprint[1].apiEndpoints)
    /\ vState.blueprint[1].frontendPages = Some(<<Page("Dashboard", TRUE, <<P_tasks>>)>>)
    /\ ReturnedValidation.isValid = TRUE
    /\ ReturnedValidation.issues = <<>>

RoutedIssues == vState.blueprintValidation[1].issues

ErrorPositions == {i \in DOMAIN RoutedIssues : RoutedIssues[i].severity = "error"}

Occurrences(target) ==
    Cardinality({i \in DOMAIN RoutedIssues : RoutedIssues[i].fixTarget = target})

\* C10: for a validation that is not valid, the router returns the fix
\* target of the first error in the list when there is an error; when all
\* the issues are warnings it returns a fix target that no other target
\* exceeds in number of issues.
C10_RouterTarget ==
    (vDone /\ ~vState.blueprintValidation[1].isValid /\ RoutedIssues # <<>>) =>
        IF ErrorPositions # {}
        THEN \E i \in ErrorPositions :
                 /\ \A j \in ErrorPositions : i <= j
                 /\ vRoute = RoutedIssues[i].fixTarget
        ELSE /\ Occurrences(vRoute) >= 1
             /\ \A t \in FixTargets : Occurrences(vRoute) >= Occurrences(t)

C10_Witness ==
    /\ vDone
    /\ ~vState.blueprintValidation[1].isValid
    /\ Len(RoutedIssues) = 4
    /\ ErrorPositions = {2, 4}
    /\ RoutedIssues[2].fixTarget = "architectStep4"
    /\ RoutedIssues[4].fixTarget = "architectStep2"
    /\ RoutedIssues[1].fixTarget = "architectStep3"
    /\ RoutedIssues[3].fixTarget = "architectStep3"
    /\ vRoute = "architectStep4"

(***************************************************************************)
(* Properties of a run (checked under Spec).                               *)
(***************************************************************************)
Ledger == state.tokenUsage

RECURSIVE SumInputTokens(_)
SumInputTokens(calls) ==
    IF calls = <<>> THEN 0 ELSE calls[1].inputTokens + SumInputTokens(Tail(calls))

RECURSIVE SumOutputTokens(_)
SumOutputTokens(calls) ==
    IF calls = <<>> THEN 0 ELSE calls[1].outputTokens + SumOutputTokens(Tail(calls))

RecordsOf(agent) == {i \in DOMAIN Ledger.calls : Ledger.calls[i].agent = agent}

\* C3: in every state of a run the ledger has exactly one record per
\* callGemini invocation that returned to a node that completed, in order,
\* each with the tokens of that invocation, and totalInput and totalOutput
\* are the sums of inputTokens and outputTokens over the records, whatever
\* retries and revisits of architect steps there were.
C3_LedgerExactlyOnce ==
    /\ Len(Ledger.calls) = Len(billed)
    /\ \A i \in DOMAIN billed :
           Ledger.calls[i] = [agent        |-> billed[i].agent,
                              inputTokens  |-> billed[i].tokens.input,
                              outputTokens |-> billed[i].tokens.output]
    /\ Ledger.totalInput = SumInputTokens(Ledger.calls)
    /\ Ledger.totalOutput = SumOutputTokens(Ledger.calls)

C3_Witness ==
    /\ runStatus = "done"
    /\ Cardinality(RecordsOf("architectStep2")) = 3
    /\ Cardinality(RecordsOf("architectStep1")) = 1
    /\ Len(Ledger.calls) = Len(billed)
    /\ Ledger.totalInput > 0

RouteBacks == {i \in DOMAIN passes : passes[i].next # "plannerAgent"}

\* C6: in a run blueprintValidator routes back to an architect step at most
\* 2 times and is executed at most 3 times, and a pass that starts with
\* validationCycles >= 2 is followed by plannerAgent.
C6_ValidatorCycleBounded ==
    /\ Cardinality(RouteBacks) <= 2
    /\ Len(passes) <= 3
    /\ (runStatus = "aborted" /\ node = "blueprintValidator") => Len(passes) <= 2
    /\ \A i \in RouteBacks :
           passes[i].next \in {"architectStep2", "architectStep3", "architectStep4"}
    /\ \A i \in DOMAIN passes :
           passes[i].incoming >= 2 => passes[i].next = "plannerAgent"

C6_Witness ==
    /\ Len(passes) = 3
    /\ RouteBacks = {1, 2}
    /\ passes[3].incoming = 2
    /\ passes[3].returned.issues # <<>>
    /\ passes[3].next = "plannerAgent"
    /\ node = "plannerAgent"

\* C9: every execution of blueprintValidatorNode that returns, returns
\* validationCycles equal to the incoming validationCycles plus 1, whether
\* it is a clean pass, a forced pass or a route-back; so validationCycles
\* in the state is the number of validator executions completed in the run.
C9_CycleCounter ==
    /\ \A i \in DOMAIN passes :
           passes[i].returned.validationCycles = passes[i].incoming + 1
    /\ state.blueprintValidation[1].validationCycles = Len(passes)

C9_Witness ==
    /\ Len(passes) = 2
    /\ ~passes[1].returned.isValid
    /\ passes[2].returned.isValid
    /\ passes[2].returned.issues = <<>>
    /\ state.blueprintValidation[1].validationCycles = 2
    /\ runStatus = "done"

\* C11: for every state a validation pass produced, blueprintValidatorRouter
\* returns "__end__" (mapped to plannerAgent) exactly when isValid is TRUE
\* and otherwise one of architectStep2, architectStep3, architectStep4; what
\* it returns is a key of the path map of buildGraph; and plannerAgent is
\* entered only when the last validation pass reported isValid = TRUE.
C11_RouterAgreesWithIsValid ==
    /\ \A i \in DOMAIN passes :
           /\ passes[i].route \in ValidatorPathKeys
           /\ passes[i].route = "__end__" <=> passes[i].returned.isValid
           /\ passes[i].next = "plannerAgent" <=> passes[i].returned.isValid
           /\ ~passes[i].returned.isValid =>
                  /\ passes[i].route \in {"architectStep2", "architectStep3", "architectStep4"}
                  /\ passes[i].next = passes[i].route
    /\ (node = "plannerAgent" \/ RecordsOf("plannerAgent") # {}) =>
           /\ passes # <<>>
           /\ passes[Len(passes)].returned.isValid

C11_Witness ==
    /\ Len(passes) = 2
    /\ ~passes[1].returned.isValid
    /\ passes[1].route = "architectStep4"
    /\ passes[2].returned.isValid
    /\ passes[2].route = "__end__"
    /\ RecordsOf("plannerAgent") # {}

(***************************************************************************)
(* The process: it may crash in the middle of a run and be started again   *)
(* with the same command line and environment.                             *)
(***************************************************************************)
\* a crash is explored while at most this many nodes that call the service
\* have completed
MaxCrashDepth == 1

\* createCheckpointer (graph.js 97-111): RedisSaver when REDIS_URL is set
\* and the connection succeeds, MemorySaver otherwise
Savers == {"memory", "redis"}

\* REDIS_URL set or not, @langchain/langgraph-checkpoint-redis importable or
\* not, the server reachable or not
Envs == [redisUrl : BOOLEAN, importOk : BOOLEAN, connectOk : BOOLEAN]

\* the smaller of the budgets of the run, so that the run after a restart
\* stays small
InitProcess ==
    /\ state = InitialState("todo app", 24000)
    /\ node = "pmAgent"
    /\ runStatus = "running"
    /\ billed = <<>>
    /\ passes = <<>>
    /\ applied = <<>>
    /\ threadId = 1
    /\ env \in Envs
    /\ InitSandboxes
    /\ saver = buildGraph(Some(createCheckpointer(env)))
    /\ saved = Put(NoCheckpoints, threadId, Checkpoint(state, node))
    /\ steps = 0
    /\ trace = <<>>
    /\ crashedAt = None

\* the process dies: its memory is lost, and with it the checkpoints of a
\* MemorySaver; those of a RedisSaver stay in the store
Crash ==
    /\ runStatus = "running"
    /\ threadId <= MaxRestarts
    /\ Len(billed) <= MaxCrashDepth
    /\ runStatus' = "crashed"
    /\ crashedAt' = saved[threadId]
    /\ saved' = IF saver = "memory" THEN NoCheckpoints ELSE saved
    /\ steps' = 0
    /\ trace' = <<>>
    /\ state' = DefaultState
    /\ node' = "__start__"
    /\ billed' = <<>>
    /\ passes' = <<>>
    /\ ResetCall
    /\ UNCHANGED <<applied, threadId, saver, env, sbVars, valVars>>

\* main again (index.js 136-178) with the same requirement and TOKEN_BUDGET:
\* a new thread id from Date.now(), and graph.invoke with the input, which
\* starts the thread at START
Restart ==
    /\ runStatus = "crashed"
    /\ threadId' = threadId + 1
    /\ state' = InitialState(crashedAt[1].values.userRequirement,
                             crashedAt[1].values.tokenBudget)
    /\ node' = "pmAgent"
    /\ runStatus' = "running"
    /\ saved' = Put(saved, threadId', Checkpoint(state', node'))
    /\ steps' = 0
    /\ trace' = <<>>
    /\ crashedAt' = None
    /\ saver' = buildGraph(Some(createCheckpointer(env)))
    /\ UNCHANGED <<billed, passes, applied, env, sbVars, callVars, valVars>>

RestartNext == Next \/ Crash \/ Restart

RestartInit == InitCall /\ InitValIdle /\ InitProcess

SpecRestart == RestartInit /\ [][RestartNext]_vars

(***************************************************************************)
(* The engine with its safety ceiling: the PM agent may ask for            *)
(* clarification on every visit, and every invocation of a node returns or *)
(* throws.                                                                 *)
(***************************************************************************)
\* the service asks for clarification once more, however many rounds there were
RespondClarify ==
    /\ runStatus = "running"
    /\ node = "pmAgent"
    /\ Success([text |-> JsonText, promptTokenCount |-> UsageOf("pmAgent").input,
                candidatesTokenCount |-> UsageOf("pmAgent").output,
                parsed |-> [status |-> "needs_clarification", questions |-> Some(<<"q1">>),
                            spec |-> None]])

\* the ceiling is reached with a node still to execute: graph.invoke rejects
\* and main exits (index.js 229-239)
RecursionLimit ==
    /\ runStatus = "running"
    /\ steps >= RECURSION_LIMIT
    /\ runStatus' = "aborted"
    /\ UNCHANGED <<state, node, saved, steps, trace, billed, passes, applied, procVars, callVars, valVars>>

EngineNext == Next \/ RespondClarify \/ RecursionLimit

EngineInit == InitCall /\ InitValIdle /\ InitProcess

SpecEngine == EngineInit /\ [][EngineNext]_vars

(***************************************************************************)
(* The reducers of AgentState on their own: updates of one channel each    *)
(* are merged into the default state, as LangGraph does with the value a   *)
(* node returned under that key.  None is a value of null or undefined.    *)
(***************************************************************************)
MaxUpdates == 3

\* the channels whose reducer is (_, y) => y ?? default
ReplaceChannels ==
    {"pmStatus", "clarifiedSpec", "sandboxId", "sandboxHealthy",
     "blueprintValidation", "error", "tokenBudget"}

ReplaceValues(channel) ==
    CASE channel = "pmStatus"            -> {None, Some("spec_ready")}
      [] channel = "clarifiedSpec"       -> {None, Some("spec")}
      [] channel = "sandboxId"           -> {None, Some("sandbox-1")}
      [] channel = "sandboxHealthy"      -> {None, Some(TRUE)}
      [] channel = "blueprintValidation" -> {None, Some(Validation(TRUE, <<>>, 1))}
      [] channel = "error"               -> {None, Some("failed")}
      [] channel = "tokenBudget"         -> {None, Some(DOLLAR)}

RegistryEntry(path, version) == [path |-> path, exports |-> version]

RegistryUpdates ==
    {None,
     Some(<<RegistryEntry("a.js", 1)>>),
     Some(<<RegistryEntry("a.js", 2)>>),
     Some(<<RegistryEntry("a.js", 1), RegistryEntry("b.js", 1)>>),
     Some(<<RegistryEntry("b.js", 2), RegistryEntry("a.js", 1), RegistryEntry("b.js", 1)>>)}

AccumulateChannels == {"pmConversation", "userFeedback", "tokenUsage", "blueprint"}

AccumulateValues(channel) ==
    CASE channel = "pmConversation" -> {None, Some(<<ConversationEntry("user", None, Some("a"), None)>>)}
      [] channel = "userFeedback"   -> {None, Some(<<"more colour">>)}
      [] channel = "tokenUsage"     -> {None, Some(makeTokenDelta("pmAgent", [input |-> 1, output |-> 1, cost |-> 40]))}
      [] channel = "blueprint"      -> {None, Some([entities |-> None]),
                                        Some([dbSchema |-> Some(CleanSchema)])}

\* an update with the one key channel
Single(channel, y) == [c \in {channel} |-> y]

Merge(channel, y) ==
    /\ state' = ApplyUpdate(state, Single(channel, y))
    /\ applied' = Append(applied, [channel |-> channel, value |-> y])
    /\ UNCHANGED <<node, runStatus, billed, passes, saved, steps, trace, procVars, callVars, valVars>>

ReplaceUpdate ==
    /\ Len(applied) < MaxUpdates
    /\ \E channel \in ReplaceChannels : \E y \in ReplaceValues(channel) : Merge(channel, y)

FileRegistryUpdate ==
    /\ Len(applied) < MaxUpdates
    /\ \E y \in RegistryUpdates : Merge("fileRegistry", y)

AccumulateUpdate ==
    /\ Len(applied) < MaxUpdates
    /\ \E channel \in AccumulateChannels : \E y \in AccumulateValues(channel) : Merge(channel, y)

ReducerNext == ReplaceUpdate \/ FileRegistryUpdate \/ AccumulateUpdate

ReducerInit == InitCall /\ InitValIdle /\ InitRunIdle

SpecReducer == ReducerInit /\ [][ReducerNext]_vars

(***************************************************************************)
(* The checks of the validation pass, one by one (under SpecValidator).    *)
(***************************************************************************)
Reported(type, severity, fixTarget, about) ==
    \E i \in DOMAIN ReturnedValidation.issues :
        ReturnedValidation.issues[i] = Issue(type, severity, fixTarget, about)

TableNamed(blueprint, name) ==
    /\ IsSome(TablesOf(blueprint))
    /\ \E t \in Range(TablesOf(blueprint)[1]) :
           IsSome(t.name) /\ toLowerCase(t.name[1]) = toLowerCase(name)

EntityHasTable(blueprint, entityName) ==
    /\ IsSome(TablesOf(blueprint))
    /\ \E t \in Range(TablesOf(blueprint)[1]) :
           IsSome(t.name) /\ NameMatches(entityName, t.name[1])

NamedEntities(blueprint) ==
    IF IsSome(blueprint.entities)
    THEN {e \in Range(blueprint.entities[1]) : IsSome(e.name)}
    ELSE {}

\* C12: after a validation pass, each entity of the blueprint without a
\* name-matching table in dbSchema is reported as a missing_table error with
\* fixTarget architectStep2; so when a pass below the cycle ceiling reports
\* isValid = TRUE, every entity has a table.
C12_MissingTableReported ==
    ValidatorReturned =>
        /\ \A e \in NamedEntities(vState.blueprint[1]) :
               ~EntityHasTable(vState.blueprint[1], e.name[1]) =>
                   Reported("missing_table", "error", "architectStep2", e.name[1])
        /\ (ReturnedValidation.isValid /\ CurrentCycles(vState) < MAX_VALIDATION_CYCLES) =>
               \A e \in NamedEntities(vState.blueprint[1]) :
                   EntityHasTable(vState.blueprint[1], e.name[1])

\* the table a foreign key names: the name before "(" in the form
\* table(field), the whole reference when it is a bare name
ReferencedTable(reference) ==
    IF IsSome(RefMatch(reference)) THEN RefMatch(reference)[1] ELSE reference

ForeignKeyReferences(blueprint) ==
    IF IsSome(TablesOf(blueprint))
    THEN UNION { {fk.references[1] : fk \in {g \in Range(t.foreignKeys[1]) : IsSome(g.references)}} :
                    t \in {u \in Range(TablesOf(blueprint)[1]) : IsSome(u.foreignKeys)} }
    ELSE {}

\* C13: after a validation pass, each foreign key whose referenced table is
\* not the name of a table of the schema is reported as an
\* invalid_foreign_key error with fixTarget architectStep2, whether the
\* reference is a bare table name or has the form table(field).
C13_ForeignKeyReported ==
    ValidatorReturned =>
        \A reference \in ForeignKeyReferences(vState.blueprint[1]) :
            ~TableNamed(vState.blueprint[1], ReferencedTable(reference)) =>
                Reported("invalid_foreign_key", "error", "architectStep2", reference)

RelatedTables(blueprint) ==
    IF IsSome(blueprint.apiEndpoints)
    THEN {ep.relatedTable[1] :
             ep \in {e \in Range(blueprint.apiEndpoints[1]) : Truthy(e.relatedTable)}}
    ELSE {}

\* C14: after a validation pass, each API endpoint whose relatedTable is not
\* the name of a table of dbSchema is reported as an orphan_endpoint error
\* with fixTarget architectStep3.
C14_OrphanEndpointReported ==
    ValidatorReturned =>
        \A related \in RelatedTables(vState.blueprint[1]) :
            ~TableNamed(vState.blueprint[1], related) =>
                Reported("orphan_endpoint", "error", "architectStep3", related)

\* a prerequisite artifact of the checks is absent altogether
ArtifactAbsent(s) ==
    \/ ~IsSome(s.blueprint)
    \/ ~IsSome(TablesOf(s.blueprint[1]))
    \/ ~NamesGiven(s.blueprint[1])

\* C15: blueprintValidatorNode raises for no state, and when a prerequisite
\* artifact is absent (no blueprint, no dbSchema.tables, an entity or a
\* table without a name) the pass reports the absence as an issue.
C15_NeverRaises ==
    vDone =>
        /\ ~vOut.raised
        /\ ArtifactAbsent(vState) => ReturnedValidation.issues # <<>>

(***************************************************************************)
(* The reducers (under SpecReducer).                                       *)
(***************************************************************************)
\* the updates of a channel that were merged, in order
UpdatesOf(channel) ==
    SelectSeq(applied, LAMBDA u : u.channel = channel)

NonNullUpdatesOf(channel) ==
    SelectSeq(applied, LAMBDA u : u.channel = channel /\ IsSome(u.value))

\* the value of a channel that holds the non-null update y: the channels
\* whose default is null or an object are kept as optional values
Holding(channel, y) ==
    IF channel \in {"clarifiedSpec", "error", "blueprintValidation"} THEN y ELSE y[1]

\* C16: a Replace channel holds the last non-null update merged into it
\* (its default when there was none): an update of null or undefined keeps
\* the current value.
C16_LastNonNullWins ==
    \A channel \in ReplaceChannels :
        LET written == NonNullUpdatesOf(channel) IN
        state[channel] = IF written = <<>> THEN DefaultState[channel]
                         ELSE Holding(channel, written[Len(written)].value)

\* the paths of a registry, in order
Paths(registry) == [i \in DOMAIN registry |-> registry[i].path]

\* every entry merged into fileRegistry, in order of application
AppliedEntries == Flatten([i \in DOMAIN NonNullUpdatesOf("fileRegistry") |->
                              NonNullUpdatesOf("fileRegistry")[i].value[1]])

\* C17: after any sequence of array updates merged into fileRegistry from
\* its default, the registry has exactly one entry per distinct path that
\* was applied, that entry is the one applied last for the path, and the
\* paths stand in the order of their first appearance.
C17_RegistryKeyedByPath ==
    LET entries == AppliedEntries
        last(path) == CHOOSE i \in DOMAIN entries :
                          /\ entries[i].path = path
                          /\ \A j \in DOMAIN entries : entries[j].path = path => j <= i
    IN  /\ Paths(state.fileRegistry) = FirstAppearances(Paths(entries))
        /\ \A i \in DOMAIN state.fileRegistry :
               state.fileRegistry[i] = entries[last(state.fileRegistry[i].path)]

\* a path that was updated later keeps the position of its first appearance
C17_Witness ==
    /\ Len(applied) = 2
    /\ applied[1] = [channel |-> "fileRegistry",
                     value |-> Some(<<RegistryEntry("a.js", 1), RegistryEntry("b.js", 1)>>)]
    /\ applied[2] = [channel |-> "fileRegistry", value |-> Some(<<RegistryEntry("a.js", 2)>>)]
    /\ state.fileRegistry = <<RegistryEntry("a.js", 2), RegistryEntry("b.js", 1)>>

StartsWith(longer, shorter) ==
    /\ Len(shorter) <= Len(longer)
    /\ SubSeq(longer, 1, Len(shorter)) = shorter

\* C18: no update shrinks an accumulating channel: pmConversation,
\* userFeedback and tokenUsage.calls keep their entries as a prefix, every
\* path of fileRegistry stays in it, and blueprint keeps its keys.
C18_AccumulateNeverShrinks ==
    [][/\ StartsWith(state'.pmConversation, state.pmConversation)
       /\ StartsWith(state'.userFeedback, state.userFeedback)
       /\ StartsWith(state'.tokenUsage.calls, state.tokenUsage.calls)
       /\ Range(Paths(state.fileRegistry)) \subseteq Range(Paths(state'.fileRegistry))
       /\ DOMAIN state.blueprint[1] \subseteq DOMAIN state'.blueprint[1]]_vars

\* accumulating channels that were written and then received null
C18_Witness ==
    /\ Len(applied) = 3
    /\ applied[1].channel = "pmConversation" /\ IsSome(applied[1].value)
    /\ applied[2].channel = "pmConversation" /\ ~IsSome(applied[2].value)
    /\ applied[3].channel = "pmConversation" /\ IsSome(applied[3].value)
    /\ Len(state.pmConversation) = 2

C19_WitnessTerminal ==
    /\ runStatus = "aborted"
    /\ pc = "failed"
    /\ callResult.error # "TOKEN_BUDGET_EXCEEDED"
    /\ node = "plannerAgent"

\* C20: when the process has crashed in the middle of a run and is started
\* again, the run continues from the last checkpoint written before the
\* crash: the channels are those of the checkpoint and the node to execute
\* is the one after the last node that completed, so that no completed
\* node is executed again.
C20_ResumesFromCheckpoint ==
    [][(runStatus = "crashed" /\ runStatus' = "running") =>
           /\ IsSome(crashedAt)
           /\ Checkpoint(state', node') = crashedAt[1]]_vars

(***************************************************************************)
(* The engine (under SpecEngine).                                          *)
(***************************************************************************)
Terminated == runStatus \in {"done", "aborted"}

\* how far one invocation of callGemini has come
CallPosition ==
    CASE pc = "idle"     -> 0
      [] pc = "awaiting" -> 2 * attempt - 1
      [] pc = "backoff"  -> 2 * attempt
      [] OTHER           -> 2 * MAX_RETRIES + 1

\* how far the run has come: the nodes executed, then the position of the call
Progress ==
    IF Terminated THEN (RECURSION_LIMIT + 1) * (2 * MAX_RETRIES + 2)
    ELSE steps * (2 * MAX_RETRIES + 2) + CallPosition

\* C21: every run ends after a bounded number of steps: each step brings
\* the run further and its progress is bounded, until it has ended at END
\* or was aborted, at the latest when the safety ceiling is reached with a
\* node still to execute; the nodes that call the service
\* and the validator are executed at most RECURSION_LIMIT times together
\* and the validator at most MAX_VALIDATION_CYCLES + 1 times.
C21_RunTerminates ==
    /\ [][Progress' > Progress]_vars
    /\ [](Progress <= (RECURSION_LIMIT + 1) * (2 * MAX_RETRIES + 2))
    /\ [](runStatus = "done" => node = "__end__")
    /\ [](Len(billed) + Len(passes) <= RECURSION_LIMIT)
    /\ [](Len(passes) <= MAX_VALIDATION_CYCLES + 1)

\* the clarification cycle went on until the ceiling stopped it
C21_Witness ==
    /\ runStatus = "aborted"
    /\ steps = RECURSION_LIMIT
    /\ pc = "idle"
    /\ node = "humanInput"
    /\ ClarificationsAsked(state) = 13

(***************************************************************************)
(* The order of the nodes of a run (under Spec).                           *)
(***************************************************************************)
ArchitectStep(k) ==
    CASE k = 1 -> "architectStep1"
      [] k = 2 -> "architectStep2"
      [] k = 3 -> "architectStep3"
      [] k = 4 -> "architectStep4"
      [] k = 5 -> "architectStep5"

\* the nodes that may follow node n in the declared graph; END is no node
Successors(n) ==
    CASE n = "pmAgent"            -> {"humanInput", "architectStep1", "__end__"}
      [] n = "humanInput"         -> {"pmAgent"}
      [] n \in {ArchitectStep(k) : k \in 1..4} ->
             {ArchitectStep(k + 1) : k \in {j \in 1..4 : ArchitectStep(j) = n}}
      [] n = "architectStep5"     -> {"blueprintValidator"}
      [] n = "blueprintValidator" -> {"plannerAgent", "architectStep2", "architectStep3",
                                      "architectStep4"}
      [] n = "plannerAgent"       -> {"setupSandbox"}
      [] n = "setupSandbox"       -> {"sandboxHealthCheck"}
      [] n = "sandboxHealthCheck" -> {"setupSandbox", "__end__"}

\* the executed nodes followed by the node to execute next
Path == Append(trace, node)

\* the positions at which the validator routed back to step k
RouteBacksTo(k) ==
    {i \in 1..(Len(trace) - 1) :
        trace[i] = "blueprintValidator" /\ trace[i + 1] = ArchitectStep(k)}

TwelveNodes ==
    <<"pmAgent", "humanInput", "pmAgent", "architectStep1", "architectStep2",
      "architectStep3", "architectStep4", "architectStep5", "blueprintValidator",
      "plannerAgent", "setupSandbox", "sandboxHealthCheck">>

\* C22: the executed nodes form a path of the declared graph that starts at
\* pmAgent, every node with one outgoing edge being followed by the target
\* of that edge; after a route-back to step k the steps k..5 and then the
\* validator follow in order; and a run that ended with one execution of
\* humanInput, one validation pass and a healthy sandbox executed exactly
\* the twelve nodes of the straight path.
C22_TraceIsPath ==
    /\ Path[1] = "pmAgent"
    /\ \A i \in 1..(Len(Path) - 1) : Path[i + 1] \in Successors(Path[i])
    /\ \A k \in 2..4 : \A i \in RouteBacksTo(k) : \A j \in 0..(6 - k) :
           i + 1 + j <= Len(trace) =>
               trace[i + 1 + j] = IF k + j <= 5 THEN ArchitectStep(k + j)
                                  ELSE "blueprintValidator"
    /\ (/\ runStatus = "done"
        /\ Count(trace, "humanInput") = 1
        /\ Count(trace, "blueprintValidator") = 1
        /\ state.sandboxHealthy) => trace = TwelveNodes

\* the straight path with one round of clarification
C22_Witness ==
    /\ runStatus = "done"
    /\ trace = TwelveNodes
    /\ state.sandboxHealthy

\* a run with a route-back to step 3
C22_WitnessRouteBack ==
    /\ runStatus = "done"
    /\ RouteBacksTo(3) # {}
    /\ Count(trace, "architectStep3") = 2
    /\ Count(trace, "architectStep2") = 1

\* C23: on every visit of pmAgent the edge out of it is resolved from the
\* pmStatus of the state after that visit: needs_clarification leads to
\* humanInput, spec_ready to architectStep1, anything else to END.
C23_PmEdgeReevaluated ==
    [][trace' = Append(trace, "pmAgent") =>
           node' = CASE state'.pmStatus = "needs_clarification" -> "humanInput"
                     [] state'.pmStatus = "spec_ready"          -> "architectStep1"
                     [] OTHER                                   -> "__end__"]_vars

\* pmAgent was visited twice and left by a different edge each time
C23_Witness ==
    /\ trace = <<"pmAgent", "humanInput", "pmAgent">>
    /\ node = "architectStep1"
    /\ state.pmStatus = "spec_ready"

\* the answers of the user in pmConversation
UserEntries == {i \in DOMAIN state.pmConversation : state.pmConversation[i].role = "user"}

\* C24: when pmAgent returns needs_clarification humanInput executes next,
\* and every execution of humanInput appends an answer of the user to
\* pmConversation, so that pmAgent, which is executed again after
\* humanInput, never reads the conversation it has already read.
C24_AnswerBeforePmAgain ==
    /\ [](Cardinality(UserEntries) = Count(trace, "humanInput"))
    /\ [][(trace' = Append(trace, "pmAgent") /\ state'.pmStatus = "needs_clarification")
              => node' = "humanInput"]_vars
    /\ [][trace' = Append(trace, "humanInput") =>
              /\ Len(state'.pmConversation) = Len(state.pmConversation) + 1
              /\ state'.pmConversation[Len(state'.pmConversation)].role = "user"
              /\ node' = "pmAgent"]_vars

\* the retries of the sandbox setup so far: every execution of
\* setupSandbox after the first
SetupRetries == Count(trace, "setupSandbox") - 1

\* C25: after sandboxHealthCheck the run goes to END when the sandbox is
\* healthy; when it is unhealthy the run goes back to setupSandbox, unless
\* the setup has been retried 2 times already, and the setup is retried at
\* most 2 times.
C25_UnhealthyRetriesSetup ==
    /\ [][trace' = Append(trace, "sandboxHealthCheck") =>
              node' = IF state'.sandboxHealthy THEN "__end__"
                      ELSE IF SetupRetries < 2 THEN "setupSandbox"
                      ELSE "__end__"]_vars
    /\ [](SetupRetries <= 2)

(***************************************************************************)
(* Terminal failures and backoff of callGemini (checked under SpecCall).   *)
(***************************************************************************)
RetriesExhausted == pc = "failed" /\ Len(outcomes) = MAX_RETRIES

\* C26: once the retries are exhausted the error thrown is JSON_PARSE_FAILED
\* when the last attempt's output did not parse and the channel's own error
\* when the last attempt's generateContent call failed, whatever the kinds
\* of the earlier failures; retries are exhausted only by a failed third
\* attempt.
C26_TerminalCauseDistinguished ==
    /\ RetriesExhausted =>
          LET last == outcomes[MAX_RETRIES].kind
          IN  /\ last \in {"parse", "channel"}
              /\ last = "parse" => callResult.error = "JSON_PARSE_FAILED"
              /\ last = "channel" =>
                    callResult.error = "CHANNEL_ERROR" /\ callResult.error = lastError
              /\ \A i \in 1..(MAX_RETRIES - 1) : outcomes[i].kind \in {"parse", "channel"}
    /\ (pc = "failed" /\ callResult.error \in {"JSON_PARSE_FAILED", "CHANNEL_ERROR"}) =>
          RetriesExhausted

C26_Witness ==
    /\ RetriesExhausted
    /\ OutcomeKinds = <<"parse", "parse", "channel">>
    /\ callResult.error = "CHANNEL_ERROR"

C26_WitnessParseLast ==
    /\ RetriesExhausted
    /\ OutcomeKinds = <<"channel", "channel", "parse">>
    /\ callResult.error = "JSON_PARSE_FAILED"

\* C27: every error thrown once the retries are exhausted tells how many
\* attempts were made and carries the detail of the last failure.
C27_TerminalFailureReported ==
    RetriesExhausted =>
        /\ ErrorReport(callResult.error).attempts = Some(Len(outcomes))
        /\ IsSome(ErrorReport(callResult.error).detail)

\* the attempts (1 or 2) that ended in a channel failure, in order
WaitedAttempts ==
    SelectSeq(<<1, 2>>, LAMBDA k : k <= Len(outcomes) /\ outcomes[k].kind = "channel")

\* C28: a channel failure on attempt 1 is followed by a wait of 2000 ms and one
\* on attempt 2 by a wait of 4000 ms, the wait is over before the next attempt
\* is issued, and nothing else waits: not a parse failure, not the third
\* attempt, not the budget failure.
C28_BackoffWaits ==
    /\ [](waits = [i \in 1..Len(WaitedAttempts) |->
                      IF WaitedAttempts[i] = 1 THEN 2000 ELSE 4000])
    /\ [](pc = "backoff" <=>
              /\ Len(outcomes) \in {1, 2}
              /\ Len(outcomes) = attempt
              /\ outcomes[Len(outcomes)].kind = "channel")
    /\ [](callResult.error = "TOKEN_BUDGET_EXCEEDED" => waits = <<>>)
    /\ [][(attempt' = attempt + 1 /\ Len(outcomes) = attempt /\ attempt >= 1
                /\ outcomes[attempt].kind = "channel") =>
              /\ pc = "backoff"
              /\ waits' = waits
              /\ waits[Len(waits)] = 1000 * Pow2(attempt)]_vars

C28_Witness ==
    /\ pc = "failed"
    /\ OutcomeKinds = <<"channel", "channel", "channel">>
    /\ waits = <<2000, 4000>>

(***************************************************************************)
(* blueprintValidatorNode as a function of the blueprint and the cycle     *)
(* counter (checked under Spec).                                           *)
(***************************************************************************)
\* a state that shares the blueprint and validationCycles of s and nothing
\* else: every other channel, and the rest of blueprintValidation, is the
\* channel's default
Twin(s) ==
    [DefaultState EXCEPT
        !.blueprint = s.blueprint,
        !.blueprintValidation = Some(Validation(FALSE, <<>>, CurrentCycles(s)))]

\* C29: every execution of blueprintValidatorNode in a run returns the
\* isValid, the issue list (in order) and the validationCycles that an
\* execution returns on a state that agrees with the run's state on the
\* blueprint and on validationCycles only, and raises exactly when that
\* execution raises: tokenUsage, tokenBudget, the conversation, the earlier
\* issues and every other field have no influence.
C29_ValidatorDependsOnBlueprintAndCycles ==
    [][(node = "blueprintValidator" /\ runStatus = "running" /\ pc = "idle"
            /\ (trace' # trace \/ runStatus' # runStatus)) =>
          LET twin == blueprintValidatorNode(Twin(state))
          IN  IF runStatus' = "aborted"
              THEN twin.raised
              ELSE /\ ~twin.raised
                   /\ state'.blueprintValidation = twin.update.blueprintValidation
                   /\ passes'[Len(passes')].returned = twin.update.blueprintValidation[1]]_vars

C29_Witness ==
    /\ Len(passes) >= 2
    /\ passes[Len(passes)].returned.issues # <<>>
    /\ state.tokenUsage # DefaultState.tokenUsage
    /\ state.pmConversation # <<>>
    /\ state.blueprintValidation # Twin(state).blueprintValidation

C29_WitnessOtherBudget ==
    /\ Len(passes) >= 1
    /\ passes[Len(passes)].returned.issues # <<>>
    /\ state.tokenBudget # DefaultState.tokenBudget

(***************************************************************************)
(* Ties between fix targets (checked under SpecRouter).                    *)
(***************************************************************************)
\* the fix targets that occur, and occur at least as often as any other
TopTargets ==
    {t \in FixTargets : Occurrences(t) >= 1 /\ \A u \in FixTargets : Occurrences(t) >= Occurrences(u)}

\* the position of the first issue whose fix target is target
FirstPosition(target) ==
    CHOOSE i \in DOMAIN RoutedIssues :
        /\ RoutedIssues[i].fixTarget = target
        /\ \A j \in DOMAIN RoutedIssues : RoutedIssues[j].fixTarget = target => i <= j

\* C30: for a validation that is not valid and holds warnings only, the
\* router returns, among the fix targets with the highest number of issues,
\* the one whose first issue comes first in the list; the route is thereby a
\* function of the issue list.
C30_TieGoesToFirstEncountered ==
    (vDone /\ ~vState.blueprintValidation[1].isValid /\ RoutedIssues # <<>>
           /\ ErrorPositions = {}) =>
        /\ vRoute \in TopTargets
        /\ \A t \in TopTargets : FirstPosition(vRoute) <= FirstPosition(t)

C30_Witness ==
    /\ vDone
    /\ ~vState.blueprintValidation[1].isValid
    /\ ErrorPositions = {}
    /\ [i \in 1..Len(RoutedIssues) |-> RoutedIssues[i].fixTarget] =
           <<"architectStep4", "architectStep2", "architectStep2", "architectStep4">>
    /\ TopTargets = {"architectStep2", "architectStep4"}
    /\ vRoute = "architectStep4"

(***************************************************************************)
(* The checkpointer of the process (checked under SpecRestart).            *)
(***************************************************************************)
\* C31: whenever the process is up it holds a checkpointer, at its first
\* start and after a restart: the Redis saver exactly when REDIS_URL is set,
\* the import succeeded and the connection succeeded, the in-memory saver in
\* every other environment; a graph built without a checkpointer holds the
\* in-memory saver.
C31_CheckpointerAlwaysUsable ==
    /\ runStatus # "crashed" =>
          /\ saver \in {"memory", "redis"}
          /\ saver = "redis" <=> (env.redisUrl /\ env.importOk /\ env.connectOk)
          /\ IsSome(saved[threadId])
    /\ buildGraph(None) = "memory"

C31_Witness ==
    /\ threadId = 2
    /\ runStatus = "running"
    /\ env.redisUrl
    /\ env.importOk
    /\ ~env.connectOk
    /\ saver = "memory"

C31_WitnessRedis ==
    /\ threadId = 2
    /\ runStatus = "running"
    /\ saver = "redis"

(***************************************************************************)
(* utils/sandboxManager.js: the Map of sandboxes and their directories.    *)
(* A directory holds files and keeps what each tag v0.k.0 committed; every *)
(* run of git may fail.  An id is built from Date.now();                   *)
(* createSandbox runs git four times before it returns, so that two calls  *)
(* never build the same id.                                                *)
(***************************************************************************)
MaxSnapshots == 1

SandboxPaths == {"a.js"}

SandboxContents == {"x"}

NoFiles == [f \in SandboxPaths |-> None]

Known(id) == IsSome(sandboxes[id])

SandboxNotFound(op, id) == [op |-> op, id |-> id, raised |-> TRUE, value |-> "not found"]

Result(op, id, value) == [op |-> op, id |-> id, raised |-> FALSE, value |-> value]

\* lines 46-157: the directories are made, git is initialised (or not: the
\* failure is only logged), and the entry is stored
createSandbox ==
    /\ nextSandbox <= MaxSandboxes
    /\ nextSandbox' = nextSandbox + 1
    /\ disk' = [disk EXCEPT ![nextSandbox] =
                    Some([files |-> NoFiles, tags |-> <<>>])]
    /\ sandboxes' = [sandboxes EXCEPT ![nextSandbox] =
                         Some([path |-> nextSandbox, snapshotCount |-> 0])]
    /\ sbResult' = Result("createSandbox", nextSandbox, "id")
    /\ UNCHANGED nonSbVars

\* lines 53-134: mkdirSync or writeFileSync throws before line 148
createSandboxFails ==
    /\ nextSandbox <= MaxSandboxes
    /\ nextSandbox' = nextSandbox + 1
    /\ sbResult' = [op |-> "createSandbox", id |-> nextSandbox, raised |-> TRUE, value |-> "fs"]
    /\ UNCHANGED <<sandboxes, disk>>
    /\ UNCHANGED nonSbVars

\* lines 162-212: the checks read the directory, git and the free space
healthCheck(id, gitOk, spaceOk) ==
    /\ sbResult' =
          IF ~Known(id)
          THEN Result("healthCheck", id, [healthy |-> FALSE, failures |-> <<"Sandbox not found">>])
          ELSE LET dir      == disk[sandboxes[id][1].path]
                   failures == (IF ~IsSome(dir) THEN <<"Backend directory missing">> ELSE <<>>)
                               \o (IF ~IsSome(dir) \/ ~gitOk
                                   THEN <<"Git not initialized">> ELSE <<>>)
                               \o (IF ~spaceOk THEN <<"Low disk space">> ELSE <<>>)
               IN  Result("healthCheck", id, [healthy |-> failures = <<>>, failures |-> failures])
    /\ UNCHANGED <<sandboxes, disk, nextSandbox>>
    /\ UNCHANGED nonSbVars

\* lines 217-225 (mkdirSync recursive makes the directory again if it is gone)
writeFile(id, filePath, content) ==
    /\ IF ~Known(id)
       THEN /\ sbResult' = SandboxNotFound("writeFile", id)
            /\ UNCHANGED disk
       ELSE LET at  == sandboxes[id][1].path
                dir == IF IsSome(disk[at]) THEN disk[at][1]
                       ELSE [files |-> NoFiles, tags |-> <<>>]
            IN  /\ disk' = [disk EXCEPT ![at] =
                                Some([dir EXCEPT !.files[filePath] = Some(content)])]
                /\ sbResult' = Result("writeFile", id, "undefined")
    /\ UNCHANGED <<sandboxes, nextSandbox>>
    /\ UNCHANGED nonSbVars

\* lines 230-237
readFile(id, filePath) ==
    /\ sbResult' =
          IF ~Known(id) THEN SandboxNotFound("readFile", id)
          ELSE LET dir == disk[sandboxes[id][1].path]
               IN  IF IsSome(dir) /\ IsSome(dir[1].files[filePath])
                   THEN Result("readFile", id, dir[1].files[filePath][1])
                   ELSE Result("readFile", id, "null")
    /\ UNCHANGED <<sandboxes, disk, nextSandbox>>
    /\ UNCHANGED nonSbVars

\* lines 242-261, for the commands "true" and "false", which change no file
executeCommand(id, exitCode) ==
    /\ sbResult' = IF ~Known(id) THEN SandboxNotFound("executeCommand", id)
                   ELSE Result("executeCommand", id, [exitCode |-> exitCode])
    /\ UNCHANGED <<sandboxes, disk, nextSandbox>>
    /\ UNCHANGED nonSbVars

\* lines 266-281: the counter moves before git is tried; the tag exists
\* only when git add, commit and tag all succeeded
snapshot(id, gitOk) ==
    /\ IF ~Known(id)
       THEN /\ sbResult' = SandboxNotFound("snapshot", id)
            /\ UNCHANGED <<sandboxes, disk>>
       ELSE LET sandbox == sandboxes[id][1]
                dir     == disk[sandbox.path]
                done    == IsSome(dir) /\ gitOk
            IN  /\ sandbox.snapshotCount < MaxSnapshots
                /\ sandboxes' = [sandboxes EXCEPT ![id] =
                                     Some([sandbox EXCEPT !.snapshotCount = @ + 1])]
                /\ disk' = IF IsSome(dir)
                           THEN [disk EXCEPT ![sandbox.path] =
                                    Some([dir[1] EXCEPT !.tags =
                                        Append(@, IF done THEN Some(dir[1].files) ELSE None)])]
                           ELSE disk
                /\ sbResult' = Result("snapshot", id,
                                   [success |-> done, tag |-> sandbox.snapshotCount + 1])
    /\ UNCHANGED nextSandbox
    /\ UNCHANGED nonSbVars

\* lines 286-296: git checkout of the tag v0.k.0; a file the tag does not
\* hold stays in the working tree
rollback(id, k, gitOk) ==
    /\ IF ~Known(id)
       THEN /\ sbResult' = SandboxNotFound("rollback", id)
            /\ UNCHANGED disk
       ELSE LET at  == sandboxes[id][1].path
                dir == disk[at]
                ok  == /\ IsSome(dir)
                       /\ gitOk
                       /\ k = 0 \/ (k <= Len(dir[1].tags) /\ IsSome(dir[1].tags[k]))
                tagged == IF k = 0 THEN NoFiles ELSE dir[1].tags[k][1]
            IN  /\ disk' = IF ok
                           THEN [disk EXCEPT ![at] =
                                    Some([dir[1] EXCEPT !.files =
                                        [f \in SandboxPaths |->
                                            IF IsSome(tagged[f]) THEN tagged[f] ELSE @[f]]])]
                           ELSE disk
                /\ sbResult' = Result("rollback", id, [success |-> ok, tag |-> k])
    /\ UNCHANGED <<sandboxes, nextSandbox>>
    /\ UNCHANGED nonSbVars

\* lines 301-320: readdirSync throws when the directory is gone
getFileList(id) ==
    /\ sbResult' =
          IF ~Known(id) THEN SandboxNotFound("getFileList", id)
          ELSE LET dir == disk[sandboxes[id][1].path]
               IN  IF IsSome(dir)
                   THEN Result("getFileList", id, {f \in SandboxPaths : IsSome(dir[1].files[f])})
                   ELSE [op |-> "getFileList", id |-> id, raised |-> TRUE, value |-> "fs"]
    /\ UNCHANGED <<sandboxes, disk, nextSandbox>>
    /\ UNCHANGED nonSbVars

\* lines 325-328
getSandboxPath(id) ==
    /\ sbResult' = IF ~Known(id) THEN Result("getSandboxPath", id, "null")
                   ELSE Result("getSandboxPath", id, sandboxes[id][1].path)
    /\ UNCHANGED <<sandboxes, disk, nextSandbox>>
    /\ UNCHANGED nonSbVars

destroySandbox_keepsEntry(id, removed) ==
    /\ IF ~Known(id)
       THEN UNCHANGED <<sandboxes, disk>>
       ELSE /\ disk' = IF removed THEN [disk EXCEPT ![sandboxes[id][1].path] = None] ELSE disk
            /\ UNCHANGED sandboxes
    /\ sbResult' = Result("destroySandbox", id, "undefined")
    /\ UNCHANGED nextSandbox
    /\ UNCHANGED nonSbVars

\* lines 333-341: rmSync is tried (removed tells whether it worked), the
\* entry is deleted either way
destroySandbox(id, removed) ==
    /\ IF ~Known(id)
       THEN UNCHANGED <<sandboxes, disk>>
       ELSE /\ disk' = IF removed THEN [disk EXCEPT ![sandboxes[id][1].path] = None] ELSE disk
            /\ sandboxes' = [sandboxes EXCEPT ![id] = None]
    /\ sbResult' = Result("destroySandbox", id, "undefined")
    /\ UNCHANGED nextSandbox
    /\ UNCHANGED nonSbVars

SandboxNext ==
    \/ createSandbox
    \/ createSandboxFails
    \/ \E id \in SandboxIds, gitOk \in BOOLEAN, spaceOk \in BOOLEAN : healthCheck(id, gitOk, spaceOk)
    \/ \E id \in SandboxIds, f \in SandboxPaths, c \in SandboxContents : writeFile(id, f, c)
    \/ \E id \in SandboxIds, f \in SandboxPaths : readFile(id, f)
    \/ \E id \in SandboxIds, exitCode \in {0, 1} : executeCommand(id, exitCode)
    \/ \E id \in SandboxIds, gitOk \in BOOLEAN : snapshot(id, gitOk)
    \/ \E id \in SandboxIds, k \in 0..MaxSnapshots, gitOk \in BOOLEAN : rollback(id, k, gitOk)
    \/ \E id \in SandboxIds : getFileList(id)
    \/ \E id \in SandboxIds : getSandboxPath(id)
    \/ \E id \in SandboxIds, removed \in BOOLEAN : destroySandbox(id, removed)

SandboxInit == InitCall /\ InitValIdle /\ InitRunIdle

SpecSandbox == SandboxInit /\ [][SandboxNext]_vars

(***************************************************************************)
(* Ids without a sandbox (checked under SpecSandbox).                      *)
(***************************************************************************)
RaisingOps == {"writeFile", "readFile", "executeCommand", "snapshot", "rollback", "getFileList"}

\* the ids createSandbox has stored and destroySandbox has deleted since
Destroyed == {i \in 1..(nextSandbox - 1) : ~Known(i)}

\* C32: a call on an id that has no entry (never created, or destroyed)
\* changes neither the Map nor any directory; getSandboxPath returns null,
\* healthCheck returns healthy = false with the single failure "Sandbox not
\* found", the six other operations raise not-found, destroySandbox returns
\* quietly.  destroySandbox always leaves the id without an entry, and an id
\* without an entry never gets one again.
C32_UnknownSandbox ==
    /\ [][(sbResult'.op # "createSandbox" /\ ~Known(sbResult'.id)) =>
              /\ sandboxes' = sandboxes
              /\ disk' = disk
              /\ sbResult'.op = "getSandboxPath" =>
                    ~sbResult'.raised /\ sbResult'.value = "null"
              /\ sbResult'.op = "healthCheck" =>
                    /\ ~sbResult'.raised
                    /\ sbResult'.value = [healthy |-> FALSE, failures |-> <<"Sandbox not found">>]
              /\ sbResult'.op \in RaisingOps =>
                    sbResult'.raised /\ sbResult'.value = "not found"
              /\ sbResult'.op = "destroySandbox" => ~sbResult'.raised]_vars
    /\ [][sbResult'.op = "destroySandbox" => sandboxes'[sbResult'.id] = None]_vars
    /\ [][\A i \in Destroyed : sandboxes'[i] = None]_vars

C32_Witness ==
    /\ 1 \in Destroyed
    /\ Known(2)
    /\ IsSome(disk[1])
    /\ sbResult = SandboxNotFound("writeFile", 1)

(***************************************************************************)
(* Where the validator's errors route back to (checked under               *)
(* SpecValidator).                                                         *)
(***************************************************************************)
ReturnedErrors ==
    {i \in DOMAIN ReturnedValidation.issues : ReturnedValidation.issues[i].severity = "error"}

ReturnedTypes(positions) == {ReturnedValidation.issues[i].type : i \in positions}

\* C33: when the node has returned a validation that is not valid, the
\* router returns architectStep2 if one of the issues is a missing_table or
\* invalid_foreign_key error, whatever orphan_endpoint errors there are;
\* architectStep3 if there are errors and all of them are orphan_endpoint;
\* and never architectStep4 when there is an error.
C33_MostUpstreamErrorStage ==
    (ValidatorReturned /\ ~ReturnedValidation.isValid) =>
        /\ ReturnedTypes(ReturnedErrors) \cap {"missing_table", "invalid_foreign_key"} # {} =>
               vRoute = "architectStep2"
        /\ ReturnedTypes(ReturnedErrors) = {"orphan_endpoint"} => vRoute = "architectStep3"
        /\ ReturnedErrors # {} => vRoute # "architectStep4"
        /\ ReturnedTypes(ReturnedErrors) \subseteq
               {"missing_table", "invalid_foreign_key", "orphan_endpoint"}

C33_Witness ==
    /\ ValidatorReturned
    /\ ~ReturnedValidation.isValid
    /\ {"missing_table", "orphan_endpoint"} \subseteq ReturnedTypes(ReturnedErrors)
    /\ "auth_mismatch" \in ReturnedTypes(DOMAIN ReturnedValidation.issues)
    /\ vRoute = "architectStep2"

C33_WitnessEndpointsOnly ==
    /\ ValidatorReturned
    /\ ~ReturnedValidation.isValid
    /\ ReturnedTypes(ReturnedErrors) = {"orphan_endpoint"}
    /\ vRoute = "architectStep3"

(***************************************************************************)
(* The budget over a whole run (checked under Spec).                       *)
(***************************************************************************)
OverBudget == state.tokenUsage.estimatedCost >= state.tokenBudget

\* C34: once the ledger has reached the budget it stays there, no
\* generateContent call is issued or in flight, the next node that calls
\* callGemini fails with TOKEN_BUDGET_EXCEEDED and the run is aborted; the
\* ledger was below the budget before the last call it recorded, so that it
\* exceeds the budget by less than the cost of that call.
C34_NoCallOnceOverBudget ==
    /\ [](OverBudget =>
              /\ callsIssued = 0
              /\ pc \in {"idle", "failed"}
              /\ pc = "failed" => callResult.error = "TOKEN_BUDGET_EXCEEDED"
              /\ billed # <<>> =>
                     state.tokenUsage.estimatedCost - billed[Len(billed)].tokens.cost
                         < state.tokenBudget)
    /\ [][OverBudget => OverBudget' /\ callsIssued' = 0]_vars
    /\ [][(OverBudget /\ pc = "failed") => (runStatus' = "aborted" /\ state' = state)]_vars

C34_Witness ==
    /\ runStatus = "aborted"
    /\ state.tokenUsage.estimatedCost > state.tokenBudget
    /\ callResult.error = "TOKEN_BUDGET_EXCEEDED"
    /\ Len(billed) >= 2
    /\ callsIssued = 0

(***************************************************************************)
(* The shape of the validation the node writes (checked under              *)
(* SpecValidator).                                                         *)
(***************************************************************************)
\* C35: in the validation the node returns, isValid = FALSE comes with a
\* non-empty issue list and an incoming cycle counter below 2, an empty
\* issue list comes with isValid = TRUE, and isValid = TRUE with issues
\* comes only with an incoming cycle counter of 2 or more; the reducer
\* stores the value as returned.
C35_ValidationShape ==
    ValidatorReturned =>
        LET v == ReturnedValidation
            c == CurrentCycles(vState)
        IN  /\ ~v.isValid => (v.issues # <<>> /\ c < 2)
            /\ v.issues = <<>> => v.isValid
            /\ (v.isValid /\ v.issues # <<>>) => c >= 2
            /\ vNew.blueprintValidation = Some(v)

C35_Witness ==
    /\ ValidatorReturned
    /\ CurrentCycles(vState) = 3
    /\ ReturnedValidation.isValid
    /\ ReturnedValidation.issues # <<>>
    /\ vNew.blueprintValidation[1].validationCycles = 4

C35_WitnessInvalid ==
    /\ ValidatorReturned
    /\ CurrentCycles(vState) = 1
    /\ ~ReturnedValidation.isValid
    /\ \A i \in Range(ReturnedValidation.issues) : i.severity = "warning"

(***************************************************************************)
(* What an execution of blueprintValidatorNode changes in a run (checked   *)
(* under Spec).                                                            *)
(***************************************************************************)
ValidatorExecutes == trace' = Append(trace, "blueprintValidator")

\* C36: the step of a run that executes blueprintValidatorNode issues no
\* generateContent call and bills nothing, changes no channel other than
\* blueprintValidation and currentPhase, and currentPhase becomes "planner"
\* when the validation it wrote has isValid = TRUE and keeps its value, which
\* is not "planner", when it has isValid = FALSE.
C36_ValidatorFrame ==
    [][ValidatorExecutes =>
          /\ \A k \in DOMAIN state \ {"blueprintValidation", "currentPhase"} :
                 state'[k] = state[k]
          /\ DOMAIN state' = DOMAIN state
          /\ IF state'.blueprintValidation[1].isValid
             THEN state'.currentPhase = "planner"
             ELSE state'.currentPhase = state.currentPhase /\ state.currentPhase # "planner"
          /\ pc = "idle" /\ pc' = "idle"
          /\ callsIssued = 0 /\ callsIssued' = 0
          /\ billed' = billed]_vars

C36_Witness ==
    /\ Len(passes) = 1
    /\ trace[Len(trace)] = "blueprintValidator"
    /\ ~state.blueprintValidation[1].isValid
    /\ state.currentPhase = "architect"
    /\ state.tokenUsage.estimatedCost > 0

C36_WitnessValid ==
    /\ Len(passes) = 2
    /\ trace[Len(trace)] = "blueprintValidator"
    /\ state.blueprintValidation[1].isValid
    /\ state.currentPhase = "planner"

(***************************************************************************)
(* What an architect step changes in a run (checked under Spec).           *)
(***************************************************************************)
ArchitectSteps ==
    {"architectStep1", "architectStep2", "architectStep3", "architectStep4", "architectStep5"}

\* the keys of the blueprint that the step returns
OwnKeys(step) ==
    CASE step = "architectStep1" -> {"entities"}
      [] step = "architectStep2" -> {"dbSchema"}
      [] step = "architectStep3" -> {"apiEndpoints"}
      [] step = "architectStep4" -> {"frontendPages"}
      [] step = "architectStep5" -> {"folderStructure", "dependencies"}

\* C37: the step of a run that executes an architect step, for the first
\* time or again after a route-back, leaves every key of the blueprint but
\* the step's own as it was, leaves blueprintValidation as it was, and adds
\* exactly one call record, that of the step, to the end of tokenUsage.calls.
C37_ArchitectStepFrame ==
    [][\A step \in ArchitectSteps :
          trace' = Append(trace, step) =>
              /\ DOMAIN state'.blueprint[1] = DOMAIN state.blueprint[1]
              /\ \A k \in DOMAIN state.blueprint[1] \ OwnKeys(step) :
                     state'.blueprint[1][k] = state.blueprint[1][k]
              /\ state'.blueprintValidation = state.blueprintValidation
              /\ Len(state'.tokenUsage.calls) = Len(state.tokenUsage.calls) + 1
              /\ SubSeq(state'.tokenUsage.calls, 1, Len(state.tokenUsage.calls))
                     = state.tokenUsage.calls
              /\ state'.tokenUsage.calls[Len(state'.tokenUsage.calls)].agent = step]_vars

C37_Witness ==
    /\ trace # <<>>
    /\ trace[Len(trace)] = "architectStep2"
    /\ Cardinality(RecordsOf("architectStep2")) = 2
    /\ state.blueprintValidation[1].issues # <<>>
    /\ state.blueprint[1].apiEndpoints # DefaultBlueprint.apiEndpoints
    /\ state.blueprint[1].frontendPages # DefaultBlueprint.frontendPages

(***************************************************************************)
(* The END branch after pmAgent (checked under Spec).                      *)
(***************************************************************************)
\* C38: the step of a run that executes pmAgentNode leaves pmStatus at
\* needs_clarification or spec_ready, spec_ready when the response carried
\* neither status, and the next node is humanInput or architectStep1, never
\* END; a run that is done has executed sandboxHealthCheck last.
C38_PmNeverEnds ==
    /\ [][trace' = Append(trace, "pmAgent") =>
              /\ state'.pmStatus \in {"needs_clarification", "spec_ready"}
              /\ callResult.parsed[1].status \notin {"needs_clarification", "spec_ready"} =>
                     state'.pmStatus = "spec_ready"
              /\ node' = IF state'.pmStatus = "spec_ready" THEN "architectStep1"
                         ELSE "humanInput"]_vars
    /\ [](runStatus = "done" =>
              /\ node = "__end__"
              /\ trace # <<>>
              /\ trace[Len(trace)] = "sandboxHealthCheck")

C38_Witness ==
    /\ trace = <<"pmAgent">>
    /\ runStatus = "running"
    /\ state.pmStatus = "spec_ready"
    /\ state.clarifiedSpec = Some([appName |-> None])
    /\ state.pmConversation = <<>>
    /\ node = "architectStep1"

C38_WitnessDone ==
    /\ runStatus = "done"
    /\ state.clarifiedSpec = Some([appName |-> None])

(***************************************************************************)
(* What is retried at once (checked under SpecCall).                       *)
(***************************************************************************)
AttemptEnded(kind) ==
    /\ Len(outcomes') = Len(outcomes) + 1
    /\ outcomes'[Len(outcomes')].kind = kind

\* C39: within one invocation a wait starts only in the step in which a
\* generateContent call fails; the step in which the output of attempt 1 or
\* 2 fails to parse issues the next attempt itself, without a wait and
\* without passing through the backoff state.
C39_ParseFailureRetriesAtOnce ==
    /\ [][waits' # waits => (AttemptEnded("channel") /\ pc' = "backoff")]_vars
    /\ [][(AttemptEnded("parse") /\ attempt < 3) =>
              /\ waits' = waits
              /\ pc' = "awaiting"
              /\ attempt' = attempt + 1
              /\ callsIssued' = callsIssued + 1]_vars

C39_Witness ==
    /\ OutcomeKinds = <<"parse", "parse", "ok">>
    /\ waits = <<>>
    /\ callsIssued = 3
    /\ pc = "returned"

(***************************************************************************)
(* A sandbox that could not be created (checked under Spec).               *)
(***************************************************************************)
\* C40: the step that executes setupSandboxNode never aborts the run and
\* goes on to sandboxHealthCheck; it leaves sandboxId = "" exactly when it
\* leaves the creation failure in error.  The step that executes
\* sandboxHealthCheckNode on sandboxId = "" writes sandboxHealthy = FALSE and
\* the no-id error, whatever a health check would have found, and ends the
\* run.  A run that is done with sandboxHealthy = FALSE has an error.
C40_CreateFailureEndsRun ==
    /\ [][trace' = Append(trace, "setupSandbox") =>
              /\ runStatus' = "running"
              /\ node' = "sandboxHealthCheck"
              /\ state'.sandboxId = "" <=> state'.error = Some("Sandbox creation failed")]_vars
    /\ [][(trace' = Append(trace, "sandboxHealthCheck") /\ state.sandboxId = "") =>
              /\ state'.sandboxHealthy = FALSE
              /\ state'.error = Some("No sandbox ID")
              /\ runStatus' = "done"
              /\ node' = "__end__"]_vars
    /\ []((runStatus = "done" /\ ~state.sandboxHealthy) => IsSome(state.error))

C40_Witness ==
    /\ runStatus = "done"
    /\ state.sandboxId = ""
    /\ ~state.sandboxHealthy
    /\ state.error = Some("No sandbox ID")
    /\ trace[Len(trace) - 1] = "setupSandbox"

====
